---------------------------- MODULE Spec2Model ----------------------------
(***************************************************************************)
(* A model of pywfplan's optimisation core:                                *)
(*   - shift::Shift            (shift.h / shift.cpp)                        *)
(*   - regexp_impl::Rex        (regexp_impl.h, regexp_impl_s.h, regexp.h)   *)
(*   - fsm::Fsm                (fsm.h)                                      *)
(*   - plan::Plan              (plan.h)                                     *)
(*   - staffing/comfort energy (staff_energy.cpp)                           *)
(*   - staff_planner::State    (staff_state.h)                              *)
(*   - anneal::Anneal          (anneal.h)                                   *)
(*   - StaffPlanner::run       (staff_planner.cpp)                          *)
(*                                                                         *)
(* Conventions.  C++ vectors are 1-based TLA+ sequences whose element i    *)
(* (0-based in the code) is written v[i + 1]; index arithmetic keeps the   *)
(* code's 0-based form.  Unordered sets are TLA+ sets, inserted into with  *)
(* the container's equality.  Doubles are exact fractions, with the two   *)
(* infinities and NaN; staffing counts, which the code holds in doubles,   *)
(* are integers.                                                           *)
(***************************************************************************)
EXTENDS Integers, Sequences, FiniteSets, TLC

VARIABLES
  sa, sb,             \* two Shifts built with the constructor of Shift
  ra, rb, rc,         \* three regular expressions built with the smart constructors
  fsm_r,              \* the expression an Fsm was constructed from
  fsm,                \* the Fsm: its maps and its mutable states_trace_
  word,               \* the word returned by the last call on fsm
  fop,                \* the last call on fsm and how it ended
  sampled,            \* the word returned by the last sample(), and whether it returned
  pre,                \* sampled and states_trace_ as they were when resample was called
  state,              \* the planner State: its samplers, week, mutation and weight
  plan,               \* the Plan the State refers to
  sop,                \* the last call on the State
  napply,             \* the number of calls of apply_mutation so far
  hist,               \* energy() and delta_energy() as they were when apply_mutation was called
  an,                 \* the Anneal: nover_, the method running, its arguments and locals
  rn                  \* the StaffPlanner: its members and the position of run()

rexVars == <<ra, rb, rc>>
fsmVars == <<fsm_r, fsm, word, fop, sampled, pre>>
stVars == <<state, plan, sop, napply, hist>>
anVars == <<an, rn>>
shVars == <<sa, sb>>
vars == <<shVars, rexVars, fsmVars, stVars, anVars>>

---------------------------------------------------------------------------
(* Bounds of the model *)

\* the most calls of run() on one planner
MaxRuns == 2

\* the longest plan, in days, on which setWeek is called
MaxPlanDays == 17

\* length of the model's day in minutes (the code's day is 24 * 60 minutes)
DAY_MINUTES == 10
\* largest number of nodes of a regular expression held in ra
MaxRexSize == 4
\* largest number of nodes of a regular expression held in rb, rc
MaxOperandSize == MaxRexSize - 1
\* longest word matched against a regular expression
MaxWordLen == 3
\* longest word that Fsm::sample draws before it returns
MaxSampleLen == 3
\* largest number of agents of a plan
MaxAgents == 2
\* number of weeks of a plan
PlanWeeks == 2
\* largest number of calls of apply_mutation on a State
MaxApplies == 2
\* trial mutations of calibrateTf (the code's STATE_SETUP_TRIES is 10000)
STATE_SETUP_TRIES == 3
\* the n of State::calibrate (the code's n is 200000)
CalibrateN == 3
\* largest number of times calibrateTi doubles t0
MaxDoublings == 3
\* largest number of calls of the methods of an Anneal by a direct caller
MaxCalls == 2
\* largest step count that the conversion of a non-finite double gives
MaxUbSteps == 1
\* largest number of nodes of a product of stars that a caller builds
MaxStarSize == 6
\* largest number of nodes of an intersection that a caller builds
MaxFlatSize == 7
\* largest number of time spans given to the constructor of a Shift
MaxSpans == 2
\* number of bits of a hash value (the code's size_t has 64)
HASH_BITS == 16

---------------------------------------------------------------------------
(* config.h *)

SLOT_LENGTH == 5
SLOTS_DAY == DAY_MINUTES \div SLOT_LENGTH
\* the days of a week, the literal 7 of plan.h, staff_energy.cpp and staff_state.h
WEEK_DAYS == 7
NOVER == 100

---------------------------------------------------------------------------
(* shift::Shift *)

\* Shift::Shift(): work_ = false, empty code, no span
DefaultShift == [code |-> "", span |-> <<>>]

\* the shifts used as letters; spans are sorted by start as the constructor does
ShiftR == [code |-> "R", span |-> <<>>]
ShiftA == [code |-> "A", span |-> << <<0, 5>> >>]
ShiftB == [code |-> "B", span |-> << <<5, 10>> >>]

\* every shift of the model
Letters == {DefaultShift, ShiftR, ShiftA, ShiftB}

\* Shift::work
Work(s) == Len(s.span) > 0

\* Shift::t0
T0(s) == IF Len(s.span) = 0 THEN 0 ELSE s.span[1][1]

\* no Shift has been built: sa and sb are Shift()
ShIdle == sa = DefaultShift /\ sb = DefaultShift

\* Shift::operator==
ShiftEq(a, b) ==
  IF Len(a.span) = 0 /\ Len(b.span) = 0 THEN a.code = b.code
  ELSE IF Len(a.span) # Len(b.span) THEN FALSE
  ELSE a.span = b.span

---------------------------------------------------------------------------
(* double: the values the code computes are kept exact, as fractions; a    *)
(* zero denominator holds the non-finite values: 1/0 and -1/0 the          *)
(* infinities, 0/0 the NaN.                                                *)

RECURSIVE GCD(_, _)
GCD(a, b) == IF b = 0 THEN a ELSE GCD(b, a % b)

Abs(n) == IF n < 0 THEN 0 - n ELSE n
Sign(n) == IF n < 0 THEN -1 ELSE IF n > 0 THEN 1 ELSE 0

\* the double n / d
Rat(n, d) ==
  IF d = 0 THEN [num |-> Sign(n), den |-> 0]
  ELSE LET g == GCD(Abs(n), Abs(d))
       IN [num |-> Sign(d) * (n \div g), den |-> Abs(d) \div g]

NaN == [num |-> 0, den |-> 0]
IsNaN(x) == x.den = 0 /\ x.num = 0
IsInf(x) == x.den = 0 /\ x.num # 0

\* operator+, operator-, operator*, operator/ and operator< of double
RAdd(a, b) ==
  IF IsNaN(a) \/ IsNaN(b) THEN NaN
  ELSE IF IsInf(a) /\ IsInf(b) THEN (IF a.num = b.num THEN a ELSE NaN)
  ELSE IF IsInf(a) THEN a
  ELSE IF IsInf(b) THEN b
  ELSE Rat(a.num * b.den + b.num * a.den, a.den * b.den)
RNeg(a) == [num |-> 0 - a.num, den |-> a.den]
RSub(a, b) == RAdd(a, RNeg(b))
RMul(a, b) ==
  IF IsNaN(a) \/ IsNaN(b) THEN NaN ELSE Rat(a.num * b.num, a.den * b.den)
RDiv(a, b) ==
  IF IsNaN(a) \/ IsNaN(b) THEN NaN
  ELSE IF IsInf(a) /\ IsInf(b) THEN NaN
  ELSE IF IsInf(b) THEN Rat(0, 1)
  ELSE IF IsInf(a) THEN [num |-> IF b.num < 0 THEN 0 - a.num ELSE a.num, den |-> 0]
  ELSE Rat(a.num * b.den, a.den * b.num)
RLt(a, b) ==
  IF IsNaN(a) \/ IsNaN(b) THEN FALSE
  ELSE IF IsInf(a) /\ IsInf(b) THEN a.num < b.num
  ELSE a.num * b.den < b.num * a.den
RLe(a, b) ==
  IF IsNaN(a) \/ IsNaN(b) THEN FALSE ELSE ~ RLt(b, a)
\* fabs
RAbs(a) == [num |-> Abs(a.num), den |-> a.den]

---------------------------------------------------------------------------
(* regexp_impl: Zer, One, Lit, Sum, And, Prd, Kst *)

Zer == [type |-> "Zer"]
One == [type |-> "One"]
Lit(c) == [type |-> "Lit", c |-> c]
Sum(items) == [type |-> "Sum", items |-> items]
And(items) == [type |-> "And", items |-> items]
Prd(items) == [type |-> "Prd", items |-> items]
Kst(item) == [type |-> "Kst", item |-> item]

\* Zer::equal .. Kst::equal; rex_ptr_set_t::find is "some member is equal"
RECURSIVE Equal(_, _)
Equal(r, s) ==
  CASE r.type = "Zer" -> s.type = "Zer"
    [] r.type = "One" -> s.type = "One"
    [] r.type = "Lit" -> s.type = "Lit" /\ ShiftEq(s.c, r.c)
    [] r.type \in {"Sum", "And"} ->
         /\ s.type = r.type
         /\ Cardinality(r.items) = Cardinality(s.items)
         /\ \A p \in r.items : \E q \in s.items : Equal(q, p)
    [] r.type = "Prd" ->
         /\ s.type = "Prd"
         /\ Len(r.items) = Len(s.items)
         /\ \A i \in 1..Len(r.items) : Equal(r.items[i], s.items[i])
    [] r.type = "Kst" -> s.type = "Kst" /\ Equal(r.item, s.item)

\* rex_ptr_set_t::insert of one element (unordered_set with rex_ptr_eq)
Insert(ts, x) == IF \E q \in ts : Equal(q, x) THEN ts ELSE ts \cup {x}

\* rex_ptr_set_t::insert of a range
InsertAll(ts, ss) == ts \cup {x \in ss : ~ \E q \in ts : Equal(q, x)}

\* Rex::nullable
RECURSIVE Nullable(_)
Nullable(r) ==
  CASE r.type = "Zer" -> FALSE
    [] r.type = "One" -> TRUE
    [] r.type = "Lit" -> FALSE
    [] r.type = "Sum" -> \E p \in r.items : Nullable(p)
    [] r.type = "And" -> \A p \in r.items : Nullable(p)
    [] r.type = "Prd" -> \A i \in 1..Len(r.items) : Nullable(r.items[i])
    [] r.type = "Kst" -> TRUE

\* Sum::make without the flattening of a sum given as second operand
SumMakeNoFlatten(r, s) ==
  IF r.type = "Zer" THEN s
  ELSE IF s.type = "Zer" THEN r
  ELSE IF Equal(r, s) THEN r
  ELSE IF r.type = "Sum" THEN
    IF s.type = "Sum" THEN Sum(InsertAll(r.items, s.items))
    ELSE Sum(Insert(r.items, s))
  ELSE Sum(Insert({r}, s))

\* Sum::make
SumMake(r, s) ==
  IF r.type = "Zer" THEN s
  ELSE IF s.type = "Zer" THEN r
  ELSE IF Equal(r, s) THEN r
  ELSE IF r.type = "Sum" THEN
    IF s.type = "Sum" THEN Sum(InsertAll(r.items, s.items))
    ELSE Sum(Insert(r.items, s))
  ELSE IF s.type = "Sum" THEN Sum(Insert(s.items, r))
  ELSE Sum(Insert({r}, s))

\* And::make
AndMake(r, s) ==
  IF r.type = "Zer" THEN r
  ELSE IF s.type = "Zer" THEN s
  ELSE IF Equal(r, s) THEN r
  ELSE IF r.type = "And" THEN
    IF s.type = "And" THEN And(InsertAll(r.items, s.items))
    ELSE And(Insert(r.items, s))
  ELSE IF s.type = "And" THEN And(Insert(s.items, r))
  ELSE And(Insert({r}, s))

\* Prd::make
PrdMake(r, s) ==
  IF r.type = "Zer" \/ s.type = "One" THEN r
  ELSE IF s.type = "Zer" \/ r.type = "One" THEN s
  ELSE IF r.type = "Kst" /\ s.type = "Kst" /\ Equal(r.item, s.item) THEN r
  ELSE IF r.type = "Prd" THEN
    IF s.type = "Prd" THEN Prd(r.items \o s.items)
    ELSE Prd(Append(r.items, s))
  ELSE IF s.type = "Prd" THEN Prd(<<r>> \o s.items)
  ELSE Prd(<<r, s>>)

\* Kst::make without the rule r** = r*
KstMakeNested(r) ==
  IF r.type = "One" \/ r.type = "Zer" THEN One
  ELSE Kst(r)

\* Kst::make
KstMake(r) ==
  IF r.type = "One" \/ r.type = "Zer" THEN One
  ELSE IF r.type = "Kst" THEN r
  ELSE Kst(r)

\* Prd::head
Head_(r) == r.items[1]

\* Prd::tail returning the second item whatever the length
TailSecond(r) == r.items[2]

\* Prd::tail
Tail_(r) == IF Len(r.items) = 2 THEN r.items[2] ELSE Prd(Tail(r.items))

\* std::accumulate(ds, Zer, Sum::make) of Sum::derivative
RECURSIVE AccumulateSum(_)
AccumulateSum(ds) ==
  IF ds = {} THEN Zer
  ELSE LET d == CHOOSE x \in ds : TRUE
       IN SumMake(AccumulateSum(ds \ {d}), d)

\* the set ds that Sum::derivative / And::derivative fill with insert
RECURSIVE InsertEach(_, _)
InsertEach(ts, ss) ==
  IF ss = {} THEN ts
  ELSE LET d == CHOOSE x \in ss : TRUE
       IN InsertEach(Insert(ts, d), ss \ {d})

\* Rex::derivative with respect to a letter
RECURSIVE Derivative(_, _)
Derivative(r, x) ==
  CASE r.type = "Zer" -> Zer
    [] r.type = "One" -> Zer
    [] r.type = "Lit" -> IF ShiftEq(x, r.c) THEN One ELSE Zer
    [] r.type = "Sum" ->
         LET all == {Derivative(p, x) : p \in r.items}
             ds == InsertEach({}, {d \in all : d.type # "Zer"})
         IN IF ds = {} THEN Zer
            ELSE IF Cardinality(ds) = 1 THEN CHOOSE d \in ds : TRUE
            ELSE AccumulateSum(ds)
    [] r.type = "And" ->
         LET all == {Derivative(p, x) : p \in r.items}
             ds == InsertEach({}, all)
         IN IF \E d \in all : d.type = "Zer" THEN Zer
            ELSE IF ds = {} THEN Zer
            ELSE IF Cardinality(ds) = 1 THEN CHOOSE d \in ds : TRUE
            ELSE And(ds)
    [] r.type = "Prd" ->
         LET h == Head_(r)
             t == Tail_(r)
         IN IF Nullable(h)
            THEN SumMake(PrdMake(Derivative(h, x), t), Derivative(t, x))
            ELSE PrdMake(Derivative(h, x), t)
    [] r.type = "Kst" -> PrdMake(Derivative(r.item, x), KstMake(r.item))

\* RegExp::derivative with respect to a word
RECURSIVE DerivativeWord(_, _)
DerivativeWord(r, w) ==
  IF Len(w) = 0 THEN r
  ELSE DerivativeWord(Derivative(r, w[1]), Tail(w))

\* RegExp::nu
Nu(r) == IF Nullable(r) THEN One ELSE Zer

\* RegExp::match
Match(r, w) == Equal(Nu(DerivativeWord(r, w)), One)

\* Rex::traverse collected by RegExp::alphabet
RECURSIVE AlphabetOf(_)
AlphabetOf(r) ==
  CASE r.type \in {"Zer", "One"} -> {}
    [] r.type = "Lit" -> {r.c}
    [] r.type \in {"Sum", "And"} -> UNION {AlphabetOf(p) : p \in r.items}
    [] r.type = "Prd" -> UNION {AlphabetOf(r.items[i]) : i \in 1..Len(r.items)}
    [] r.type = "Kst" -> AlphabetOf(r.item)

---------------------------------------------------------------------------
(* shift ordering and equi-probable partitioning, used by fsm::Fsm *)

\* std::string::operator< on the shift codes of the model
CodeOrder == <<"", "A", "B", "R">>
CodeRank(c) == CHOOSE i \in 1..Len(CodeOrder) : CodeOrder[i] = c
CodeLt(a, b) == CodeRank(a) < CodeRank(b)

\* Shift::operator<
ShiftLt(a, b) ==
  IF Len(a.span) = 0 /\ Len(b.span) = 0 THEN CodeLt(a.code, b.code)
  ELSE IF Len(a.span) # 0 /\ Len(b.span) = 0 THEN TRUE
  ELSE IF Len(a.span) = 0 /\ Len(b.span) # 0 THEN FALSE
  ELSE a.span[1][1] < b.span[1][1]

\* shift_epp::operator()
ShiftEpp(s) ==
  IF ~ Work(s) THEN 1
  ELSE IF T0(s) <= 8 * 60 THEN 2
  ELSE IF T0(s) <= 16 * 60 THEN 3
  ELSE 4

---------------------------------------------------------------------------
(* fsm::Fsm: construction *)

\* the orders in which an unordered container of the letters S may iterate
Perms(S) ==
  {f \in [1..Cardinality(S) -> S] : \A i, j \in 1..Cardinality(S) : f[i] = f[j] => i = j}

\* regexp_map.find(q1): the state index of an equal expression, 0 for end()
FindState(regexp_map, q1) ==
  IF \E i \in 1..Len(regexp_map) : Equal(regexp_map[i], q1)
  THEN CHOOSE i \in 1..Len(regexp_map) : Equal(regexp_map[i], q1)
  ELSE 0

\* Fsm::build(q0, q0_idx, regexp_map) from the k-th letter of the iteration
\* order of alphabet_map_, with Fsm::build(q0, q0_idx, l, l_idx, regexp_map)
\* as the loop body.  b holds alphabet_, order, regexp_map, finals_ and
\* trans_state_map_.
RECURSIVE Build(_, _, _)
Build(b, q0_idx, k) ==
  IF k > Len(b.order) THEN b
  ELSE
    LET l_idx == b.order[k]
        q1 == Derivative(b.regexp_map[q0_idx], b.alphabet_[l_idx + 1])
        q1_found == FindState(b.regexp_map, q1)
        q1_idx == IF q1_found = 0 THEN Len(b.regexp_map) + 1 ELSE q1_found
        b1 == [b EXCEPT
                 !.regexp_map = IF q1_found = 0 THEN Append(@, q1) ELSE @,
                 !.finals_ = IF Equal(Nu(q1), One) THEN @ \cup {q1_idx} ELSE @,
                 !.trans_state_map_ =
                     IF <<q0_idx, l_idx>> \in DOMAIN @ THEN @
                     ELSE (<<q0_idx, l_idx>> :> q1_idx) @@ @]
    IN IF Equal(q1, Zer) THEN Build(b, q0_idx, k + 1)
       ELSE IF q1_found = 0 THEN Build(Build(b1, q1_idx, 1), q0_idx, k + 1)
       ELSE Build(b1, q0_idx, k + 1)

\* std::sort of a bucket with alphabet_[a] < alphabet_[b] (insertion sort)
RECURSIVE SortBucket(_, _)
SortBucket(alphabet, p) ==
  IF Len(p) <= 1 THEN p
  ELSE
    LET rest == SortBucket(alphabet, Tail(p))
        x == p[1]
        n == Cardinality({i \in 1..Len(rest) : ShiftLt(alphabet[rest[i] + 1], alphabet[x + 1])})
    IN SubSeq(rest, 1, n) \o <<x>> \o SubSeq(rest, n + 1, Len(rest))

\* the keys of trans_state_map_ in std::map order, as a sequence
RECURSIVE KeysFrom(_, _, _, _)
KeysFrom(tsm, nq, nl, k) ==
  IF k >= nq * nl THEN <<>>
  ELSE LET key == <<(k \div nl) + 1, k % nl>>
       IN (IF key \in DOMAIN tsm THEN <<key>> ELSE <<>>) \o KeysFrom(tsm, nq, nl, k + 1)

\* the loop of Fsm::Fsm over trans_state_map_ filling state_states_map_,
\* trans_letters_map_ and the local epp_m
RECURSIVE FillMaps(_, _, _)
FillMaps(m, keys, k) ==
  IF k > Len(keys) THEN m
  ELSE
    LET q0_idx == keys[k][1]
        l_idx == keys[k][2]
        l == m.alphabet_[l_idx + 1]
        q1_idx == m.trans_state_map_[keys[k]]
        epp == ShiftEpp(l)
        trn_k == <<q0_idx, q1_idx>>
        epp_k == <<trn_k, epp>>
        ssm == IF q0_idx \notin DOMAIN m.state_states_map_
               THEN (q0_idx :> <<q1_idx>>) @@ m.state_states_map_
               ELSE [m.state_states_map_ EXCEPT ![q0_idx] = Append(@, q1_idx)]
        tlm == IF trn_k \notin DOMAIN m.trans_letters_map_
               THEN (trn_k :> << <<l_idx>> >>) @@ m.trans_letters_map_
               ELSE IF epp_k \notin DOMAIN m.epp_m
               THEN [m.trans_letters_map_ EXCEPT ![trn_k] = Append(@, <<l_idx>>)]
               ELSE [m.trans_letters_map_ EXCEPT
                       ![trn_k][m.epp_m[epp_k] + 1] = Append(@, l_idx)]
        eppm == IF trn_k \notin DOMAIN m.trans_letters_map_
                THEN (epp_k :> 0) @@ m.epp_m
                ELSE IF epp_k \notin DOMAIN m.epp_m
                THEN (epp_k :> Len(tlm[trn_k]) - 1) @@ m.epp_m
                ELSE m.epp_m
    IN FillMaps([m EXCEPT !.state_states_map_ = ssm,
                          !.trans_letters_map_ = tlm,
                          !.epp_m = eppm], keys, k + 1)

\* the loop of Fsm::Fsm over trans_state_map_, from what build has left in b
Filled(b) ==
  FillMaps([alphabet_ |-> b.alphabet_,
            finals_ |-> b.finals_,
            trans_state_map_ |-> b.trans_state_map_,
            state_states_map_ |-> <<>>,
            trans_letters_map_ |-> <<>>,
            epp_m |-> <<>>],
           KeysFrom(b.trans_state_map_, Len(b.regexp_map), Len(b.alphabet_), 0), 1)

\* the loop of Fsm::Fsm that sorts the letters of every bucket, and the
\* members of the Fsm it leaves
SortedLetters(m) ==
  [alphabet_ |-> m.alphabet_,
   finals_ |-> m.finals_,
   trans_state_map_ |-> m.trans_state_map_,
   state_states_map_ |-> m.state_states_map_,
   trans_letters_map_ |->
     [t \in DOMAIN m.trans_letters_map_ |->
        [e \in DOMAIN m.trans_letters_map_[t] |->
           SortBucket(m.alphabet_, m.trans_letters_map_[t][e])]],
   states_trace_ |-> <<>>]

\* Fsm::Fsm(const RegExp<T> &r); alphabet is the iteration order of
\* r.alphabet(), order the iteration order of alphabet_map_ (letter indices)
NewFsm(r, alphabet, order) ==
  SortedLetters(Filled(Build([alphabet_ |-> alphabet,
                              order |-> order,
                              regexp_map |-> <<r>>,
                              finals_ |-> {},
                              trans_state_map_ |-> <<>>], 1, 1)))

\* every Fsm that the constructor may build from r
FsmsOf(r) ==
  {NewFsm(r, alphabet, [k \in 1..Len(alphabet) |-> ord[k] - 1]) :
     alphabet \in Perms(AlphabetOf(r)), ord \in Perms(1..Cardinality(AlphabetOf(r)))}

---------------------------------------------------------------------------
(* fsm::Fsm: sample, resample, match *)

\* the letters of trans_letters_map_[trn_k] in the order the buckets hold them
RECURSIVE Flatten(_)
Flatten(epp_v) == IF Len(epp_v) = 0 THEN <<>> ELSE epp_v[1] \o Flatten(Tail(epp_v))

\* the lookup of trn_k in trans_letters_map_ fails or finds no bucket
NoLetters(m, trn_k) ==
  \/ trn_k \notin DOMAIN m.trans_letters_map_
  \/ Len(m.trans_letters_map_[trn_k]) = 0

\* one pass of the body of the loop of Fsm::sample that appends a letter:
\* any successor q1, any bucket, any letter of the bucket
SampleExtend(m, p) ==
  LET q0 == p.trace[Len(p.trace)]
      q1_v == IF q0 \in DOMAIN m.state_states_map_ THEN m.state_states_map_[q0] ELSE <<>>
  IN UNION {
       IF NoLetters(m, <<q0, q1_v[k]>>) THEN {}
       ELSE {[trace |-> Append(p.trace, q1_v[k]), res |-> Append(p.res, m.alphabet_[lt + 1])] :
               lt \in {Flatten(m.trans_letters_map_[<<q0, q1_v[k]>>])[j] :
                         j \in 1..Len(Flatten(m.trans_letters_map_[<<q0, q1_v[k]>>]))}}
       : k \in 1..Len(q1_v)}

\* one pass of the body may find no successor or no letter at q0
SampleStuck(m, q0) ==
  \/ q0 \notin DOMAIN m.state_states_map_
  \/ Len(m.state_states_map_[q0]) = 0
  \/ \E k \in 1..Len(m.state_states_map_[q0]) : NoLetters(m, <<q0, m.state_states_map_[q0][k]>>)

\* the runs of the loop of Fsm::sample after n letters
RECURSIVE SampleRuns(_, _)
SampleRuns(m, n) ==
  IF n = 0 THEN {[trace |-> <<1>>, res |-> <<>>]}
  ELSE UNION {SampleExtend(m, p) : p \in SampleRuns(m, n - 1)}

\* a variant of SampleEnds that lets the loop break at any state
SampleEndsAnywhere(m, p) ==
  {[ok |-> TRUE, res |-> p.res, trace |-> p.trace]}

\* how the loop of Fsm::sample may end after the run p: it returns res when
\* stop holds (by the coin or for want of a successor) and throws at a
\* state that is not final and has no successor
SampleEnds(m, p) ==
  LET q0 == p.trace[Len(p.trace)]
      stop == q0 \in m.finals_
  IN (IF stop THEN {[ok |-> TRUE, res |-> p.res, trace |-> p.trace]} ELSE {})
     \cup (IF ~ stop /\ SampleStuck(m, q0)
           THEN {[ok |-> FALSE, res |-> <<>>, trace |-> p.trace]} ELSE {})

\* Fsm::sample: every outcome with at most maxlen letters
Sample(m, maxlen) ==
  UNION {SampleEnds(m, p) : p \in UNION {SampleRuns(m, n) : n \in 0..maxlen}}

\* a variant of Resample that draws every letter from the alphabet
ResampleAnyLetter(m) ==
  {[ok |-> TRUE, res |-> w, trace |-> m.states_trace_] :
     w \in [1..(Len(m.states_trace_) - 1) -> {m.alphabet_[k] : k \in 1..Len(m.alphabet_)}]}

\* Fsm::resample() when states_trace_ has at least two entries: a letter of
\* any bucket of each traversed pair; it throws when a pair has no letters
Resample(m) ==
  LET t == m.states_trace_
      n == Len(t) - 1
      lts(i) == LET f == Flatten(m.trans_letters_map_[<<t[i], t[i + 1]>>])
                IN {m.alphabet_[f[j] + 1] : j \in 1..Len(f)}
  IN IF \E i \in 1..n : NoLetters(m, <<t[i], t[i + 1]>>)
     THEN {[ok |-> FALSE, res |-> <<>>, trace |-> t]}
     ELSE {[ok |-> TRUE, res |-> w, trace |-> t] :
             w \in {v \in [1..n -> {m.alphabet_[k] : k \in 1..Len(m.alphabet_)}] :
                      \A i \in 1..n : v[i] \in lts(i)}}

\* a variant of Fittest that takes the last of the letters of least fitness
RECURSIVE FittestLast(_, _, _, _)
FittestLast(f, v, k, acc) ==
  IF k > Len(f) THEN acc
  ELSE FittestLast(f, v, k + 1,
                   IF ~ RLt(acc.fit_min, v[k]) \/ acc.fit_idx = -1
                   THEN [fit_min |-> v[k], fit_idx |-> f[k]] ELSE acc)

\* the loops over epp_v and lts_v of Fsm::resample(fitness) at one position:
\* f holds the letters in iteration order, v their fitness, acc fit_min and
\* fit_idx
RECURSIVE Fittest(_, _, _, _)
Fittest(f, v, k, acc) ==
  IF k > Len(f) THEN acc
  ELSE Fittest(f, v, k + 1,
               IF RLt(v[k], acc.fit_min) \/ acc.fit_idx = -1
               THEN [fit_min |-> v[k], fit_idx |-> f[k]] ELSE acc)

\* Fsm::resample(fitness) when states_trace_ has at least two entries
ResampleFitness(m, fitness) ==
  LET t == m.states_trace_
      RECURSIVE Walk(_, _)
      Walk(i, res) ==
        LET trn_k == <<t[i + 1], t[i + 2]>>
            f == Flatten(m.trans_letters_map_[trn_k])
            best == Fittest(f, [k \in 1..Len(f) |-> fitness[i, res, m.alphabet_[f[k] + 1]]], 1,
                            [fit_min |-> Rat(0, 1), fit_idx |-> -1])
        IN IF i + 1 >= Len(t) THEN [ok |-> TRUE, res |-> res, trace |-> t]
           ELSE IF NoLetters(m, trn_k) THEN [ok |-> FALSE, res |-> <<>>, trace |-> t]
           ELSE IF best.fit_idx = -1 THEN [ok |-> FALSE, res |-> <<>>, trace |-> t]
           ELSE Walk(i + 1, Append(res, m.alphabet_[best.fit_idx + 1]))
  IN Walk(0, <<>>)

\* alphabet_map_.find(l): the index of the letter, -1 for end()
LetterIdx(m, l) ==
  IF \E k \in 1..Len(m.alphabet_) : ShiftEq(m.alphabet_[k], l)
  THEN (CHOOSE k \in 1..Len(m.alphabet_) : ShiftEq(m.alphabet_[k], l)) - 1
  ELSE -1

\* Fsm::match from state s
RECURSIVE FsmMatchFrom(_, _, _)
FsmMatchFrom(m, s, w) ==
  IF Len(w) = 0 THEN s \in m.finals_
  ELSE IF LetterIdx(m, w[1]) = -1 THEN FALSE
  ELSE IF <<s, LetterIdx(m, w[1])>> \notin DOMAIN m.trans_state_map_ THEN FALSE
  ELSE FsmMatchFrom(m, m.trans_state_map_[<<s, LetterIdx(m, w[1])>>], Tail(w))

\* Fsm::match
FsmMatch(m, w) == FsmMatchFrom(m, 1, w)

---------------------------------------------------------------------------
(* shift::Shift: staffing contribution *)

\* Shift::add_staff(day, c, stf)
RECURSIVE AddStaffSpans(_, _, _, _)
AddStaffSpans(span, day, c, stf) ==
  IF Len(span) = 0 THEN stf
  ELSE LET s0 == day * SLOTS_DAY + span[1][1] \div SLOT_LENGTH
           s1 == day * SLOTS_DAY + span[1][2] \div SLOT_LENGTH
       IN AddStaffSpans(Tail(span), day, c,
            [s \in 1..Len(stf) |->
               IF s0 <= s - 1 /\ s - 1 < s1 THEN stf[s] + c ELSE stf[s]])
AddStaff(sh, day, c, stf) == AddStaffSpans(sh.span, day, c, stf)

\* Shift::staff(t)
Staff(sh, t) ==
  IF Len(sh.span) = 0 \/ t < sh.span[1][1] \/ t > sh.span[Len(sh.span)][2] THEN 0
  ELSE IF \E k \in 1..Len(sh.span) : sh.span[k][1] <= t /\ t < sh.span[k][2] THEN 1
  ELSE 0

---------------------------------------------------------------------------
(* target::Target and plan::Plan *)

\* Target::Target with a slot length of SLOT_LENGTH minutes: the target is
\* padded with zeros to the next planning day
NewTarget(target) ==
  target \o [n \in 1..(SLOTS_DAY - (Len(target) % SLOTS_DAY)) |-> 0]

\* Plan::Plan(offset, agents, target)
NewPlan(offset, nagents, days, target) ==
  [target_ |-> target,
   staffing_ |-> [i \in 1..Len(target) |-> 0],
   plan_ |-> [a \in 1..nagents |-> [j \in 1..days |-> DefaultShift]],
   days_ |-> days,
   offset_ |-> IF offset > 0 THEN offset \div SLOT_LENGTH ELSE 0]

\* Plan::daySlots, Plan::weekSlots
DaySlots(p) == SLOTS_DAY + p.offset_
WeekSlots(p) == WEEK_DAYS * SLOTS_DAY + p.offset_

\* Plan::updatePlan(agent_idx, day, plan) when day <= days_: entry day + i of
\* the agent's row is written while i < plan.size() and day + i < plan_.size(),
\* and plan_.size() is the number of rows of plan_
UpdatePlan(p, agent_idx, day, line) ==
  [p EXCEPT !.plan_[agent_idx + 1] =
     [d \in 1..Len(@) |->
        IF day <= d - 1 /\ d - 1 - day < Len(line) /\ d - 1 < Len(p.plan_)
        THEN line[d - day] ELSE @[d]]]

---------------------------------------------------------------------------
(* staff_planner::staffing_energy and staff_planner::comfort_energy *)

\* sum of f(i) for i in lo..hi-1
RECURSIVE SumInt(_, _, _)
SumInt(f, lo, hi) == IF lo >= hi THEN 0 ELSE f[lo] + SumInt(f, lo + 1, hi)

\* slot0_ and slot1_ of staffing_energy
Slot0(week) == week * WEEK_DAYS * SLOTS_DAY
Slot1(p, week) == Slot0(week) + WeekSlots(p)

\* staffing_energy::energy
StaffingEnergy(p, week) ==
  Rat(SumInt([i \in Slot0(week)..(Slot1(p, week) - 1) |->
                (p.staffing_[i + 1] - p.target_[i + 1]) * (p.staffing_[i + 1] - p.target_[i + 1])],
             Slot0(week), Slot1(p, week)),
      Slot1(p, week) - Slot0(week))

\* staffing_energy::delta
StaffingDelta(p, week, prev_stf, mutd_stf) ==
  LET n == WeekSlots(p)
  IN Rat(SumInt([i \in 0..(n - 1) |->
                   (mutd_stf[i + 1] - prev_stf[i + 1])
                   * (mutd_stf[i + 1] - prev_stf[i + 1]
                      + 2 * p.staffing_[Slot0(week) + i + 1] - 2 * p.target_[Slot0(week) + i + 1])],
                0, n),
         n)

\* staffing_energy::fitness
StaffingFitness(p, day, sh0, sh1) ==
  LET off == day * SLOTS_DAY
      hi == IF off + 2 * SLOTS_DAY < Len(p.staffing_) THEN 2 * SLOTS_DAY
            ELSE IF Len(p.staffing_) > off THEN Len(p.staffing_) - off ELSE 0
      f(i) == p.target_[off + i + 1]
              - (p.staffing_[off + i + 1] - Staff(sh0, i * SLOT_LENGTH) + Staff(sh1, i * SLOT_LENGTH))
  IN Rat(SumInt([i \in 0..(hi - 1) |-> f(i) * f(i)], 0, hi), SLOTS_DAY)

\* the sum over i in lo..hi-1 of d * d for consecutive working shifts of a
\* line, d the difference of their t0 in slots (a double)
ComfortSum(line, lo, hi) ==
  Rat(SumInt([i \in lo..(hi - 1) |->
                IF Work(line[i]) /\ Work(line[i + 1])
                THEN (T0(line[i + 1]) - T0(line[i])) * (T0(line[i + 1]) - T0(line[i]))
                ELSE 0],
             lo, hi),
      SLOT_LENGTH * SLOT_LENGTH)

\* comfort_energy::energy
RECURSIVE ComfortRows(_, _, _)
ComfortRows(p, week, a) ==
  IF a > Len(p.plan_) THEN Rat(0, 1)
  ELSE RAdd(ComfortSum(p.plan_[a], week * WEEK_DAYS + 1, (week + 1) * WEEK_DAYS),
            ComfortRows(p, week, a + 1))
ComfortEnergy(p, week) == RDiv(ComfortRows(p, week, 1), Rat(WEEK_DAYS, 1))

\* comfort_energy::delta
ComfortDelta(p, week, mutd_idx, mutd_pln) ==
  LET tmpE_curr == ComfortSum(p.plan_[mutd_idx + 1], week * WEEK_DAYS + 1, (week + 1) * WEEK_DAYS)
      tmpE_mutd == ComfortSum(mutd_pln, 1, WEEK_DAYS)
  IN RDiv(RSub(tmpE_mutd, tmpE_curr), Rat(WEEK_DAYS, 1))

\* comfort_energy::fitness
ComfortFitness(line, sh0, sh1) ==
  IF Len(line) = 0 THEN Rat(0, 1)
  ELSE LET shp == line[Len(line)]
           d0 == IF Work(shp) /\ Work(sh0)
                 THEN Rat((T0(sh0) - T0(shp)) * (T0(sh0) - T0(shp)), SLOT_LENGTH * SLOT_LENGTH)
                 ELSE Rat(0, 1)
           d1 == IF Work(shp) /\ Work(sh1)
                 THEN Rat((T0(sh1) - T0(shp)) * (T0(sh1) - T0(shp)), SLOT_LENGTH * SLOT_LENGTH)
                 ELSE Rat(0, 1)
       IN RAdd(RSub(Rat(0, 1), d0), d1)

---------------------------------------------------------------------------
(* staff_planner::State; st holds the members of the State, p the Plan it  *)
(* refers to.                                                              *)

\* State::energy
Energy(st, p) ==
  RAdd(StaffingEnergy(p, st.week_), RMul(st.w1_, ComfortEnergy(p, st.week_)))

\* State::delta_energy
DeltaEnergy(st, p) ==
  RAdd(StaffingDelta(p, st.week_, st.prev_stf_, st.mutd_stf_),
       RMul(st.w1_, ComfortDelta(p, st.week_, st.mutd_idx_, st.mutd_pln_)))

\* the fitness function that State::mutate hands to resample
MutateFitness(st, p, mutd_idx) ==
  [day \in Nat, pln \in Seq(Letters), sht \in Letters |->
     RAdd(StaffingFitness(p, st.week_ * WEEK_DAYS + day,
                          p.plan_[mutd_idx + 1][st.week_ * WEEK_DAYS + day + 1], sht),
          RMul(st.w1_, ComfortFitness(pln, p.plan_[mutd_idx + 1][st.week_ * WEEK_DAYS + day + 1], sht)))]

\* the loop of State::mutate over the days of the week, from day
RECURSIVE AddWeek(_, _, _, _)
AddWeek(line, off, day, stf) ==
  IF day >= WEEK_DAYS THEN stf
  ELSE AddWeek(line, off, day + 1, AddStaff(line[off + day + 1], day, 1, stf))

\* what the reads line[0], .., line[6] of a candidate may give: the entries
\* of the line and, past its end (operator[] of a vector checks no range),
\* any Shift
ReadWeek(line) ==
  IF Len(line) >= WEEK_DAYS THEN {line}
  ELSE {line \o g : g \in [1..(WEEK_DAYS - Len(line)) -> Letters]}

\* State::mutate once mutd_idx_ is drawn and the sampler has returned o, when
\* the reads of mutd_pln_ give the entries of read
Mutated(st, p, mutd_idx, o, read) ==
  LET zeros == [i \in 1..Len(st.mutd_stf_) |-> 0]
  IN [st EXCEPT !.samplers_[mutd_idx + 1].states_trace_ = o.trace,
                !.mutd_idx_ = mutd_idx,
                !.mutd_pln_ = o.res,
                !.prev_stf_ = AddWeek(p.plan_[mutd_idx + 1], st.week_ * WEEK_DAYS, 0, zeros),
                !.mutd_stf_ = AddWeek(read, 0, 0, zeros)]

\* the candidates of State::mutate for agent mutd_idx: a sample() of its
\* sampler or a resample with the fitness of the state
MutateOutcomes(st, p, mutd_idx) ==
  {x \in Sample(st.samplers_[mutd_idx + 1], WEEK_DAYS)
           \cup (IF Len(st.samplers_[mutd_idx + 1].states_trace_) < 2
                 THEN Sample(st.samplers_[mutd_idx + 1], WEEK_DAYS)
                 ELSE {ResampleFitness(st.samplers_[mutd_idx + 1],
                                       MutateFitness(st, p, mutd_idx))})
     : x.ok}

\* State::mutate: any agent, any candidate
Mutate(st, p) ==
  UNION {UNION {{Mutated(st, p, mutd_idx, o, read) : read \in ReadWeek(o.res)}
                : o \in MutateOutcomes(st, p, mutd_idx)}
         : mutd_idx \in 0..(Len(st.samplers_) - 1)}

\* the loop of State::apply_mutation over the slots of the week
ApplyStaffing(st, p) ==
  [i \in 1..Len(p.staffing_) |->
     IF st.week_ * WEEK_DAYS * SLOTS_DAY <= i - 1
        /\ i - 1 - st.week_ * WEEK_DAYS * SLOTS_DAY < WeekSlots(p)
     THEN p.staffing_[i] + st.mutd_stf_[i - st.week_ * WEEK_DAYS * SLOTS_DAY]
                         - st.prev_stf_[i - st.week_ * WEEK_DAYS * SLOTS_DAY]
     ELSE p.staffing_[i]]

\* State::apply_mutation: the Plan after the call
ApplyMutation(st, p) ==
  [UpdatePlan(p, st.mutd_idx_, st.week_ * WEEK_DAYS, st.mutd_pln_)
     EXCEPT !.staffing_ = ApplyStaffing(st, p)]

\* the loop of State::State over the samplers, from sampler i: the Plans and
\* samplers it may leave
RECURSIVE Constructed(_, _, _, _)
Constructed(samplers, week, p, i) ==
  IF i >= Len(samplers) THEN {[samplers_ |-> samplers, plan |-> p]}
  ELSE UNION {
         LET up == UpdatePlan(p, i, week * WEEK_DAYS, o.res)
             RECURSIVE AddDays(_, _)
             AddDays(day, stf) ==
               IF day >= Len(o.res) THEN stf
               ELSE AddDays(day + 1, AddStaff(o.res[day + 1], week * WEEK_DAYS + day, 1, stf))
         IN Constructed([samplers EXCEPT ![i + 1].states_trace_ = o.trace], week,
                        [up EXCEPT !.staffing_ = AddDays(0, p.staffing_)], i + 1)
         : o \in {x \in Sample(samplers[i + 1], WEEK_DAYS) : x.ok}}

\* State::State(samplers, week, plan): every State and Plan it may leave
NewState(samplers, week, p) ==
  UNION {
    LET st0 == [samplers_ |-> c.samplers_,
                week_ |-> week,
                mutd_idx_ |-> 0,
                mutd_pln_ |-> <<>>,
                prev_stf_ |-> [i \in 1..WeekSlots(p) |-> 0],
                mutd_stf_ |-> [i \in 1..WeekSlots(p) |-> 0],
                w1_ |-> Rat(1, 1)]
    IN {[state |-> st, plan |-> c.plan] : st \in Mutate(st0, c.plan)}
    : c \in Constructed(samplers, week, p, 0)}

---------------------------------------------------------------------------
(* anneal::Anneal over a State; a holds nover_, the method that runs (op),  *)
(* where it stands (pc), its arguments, its locals and what it returned or *)
(* threw.  touched tells whether the method has called the State, entry    *)
(* holds the Plan as it was when the method was called.                    *)

CHI0 == Rat(9, 10)

\* an Anneal on which no method has been called
AnNone ==
  [nover_ |-> 0, calls |-> 0, op |-> "none", pc |-> "idle",
   ti |-> Rat(0, 1), tf |-> Rat(0, 1), delta_t |-> Rat(0, 1),
   t0 |-> Rat(0, 1), a |-> 0, n |-> 0, i |-> 0,
   de_min |-> Rat(0, 1),
   temp |-> Rat(0, 1), e |-> Rat(0, 1), steps |-> 0, nlimit |-> 0, l |-> 0, k |-> 0,
   brk |-> FALSE,
   ret |-> Rat(0, 1), what |-> "", touched |-> FALSE, entry |-> <<>>]

\* Anneal::Anneal(nover, state)
NewAnneal(nover) == [AnNone EXCEPT !.nover_ = nover]

\* Anneal::metropolis: the values it may return; urd_(rne_) is any double of
\* [0, 1), so it is below exp(x) for x >= 0, not below exp(-inf) = 0 nor
\* below a NaN, and either for the other x
Metropolis(delta, temp) ==
  IF RLt(delta, Rat(0, 1)) THEN {TRUE}
  ELSE LET x == RDiv(RNeg(delta), temp)
       IN IF IsNaN(x) THEN {FALSE}
          ELSE IF x.num >= 0 THEN {TRUE}
          ELSE IF IsInf(x) THEN {FALSE}
          ELSE {TRUE, FALSE}

\* a variant of AnnealCheck without the test of ti <= tf
AnnealCheckNoOrder(ti, tf, delta_t) ==
  IF RLe(ti, Rat(0, 1)) THEN "ti > 0"
  ELSE IF RLe(tf, Rat(0, 1)) THEN "tf > 0"
  ELSE IF RLe(Rat(1, 1), delta_t) \/ RLt(delta_t, Rat(0, 1)) THEN "0 < delta_t < 1"
  ELSE ""

\* the tests at the head of Anneal::anneal: the message of the
\* invalid_argument thrown, or "" when none is
AnnealCheck(ti, tf, delta_t) ==
  IF RLe(ti, Rat(0, 1)) THEN "ti > 0"
  ELSE IF RLe(tf, Rat(0, 1)) THEN "tf > 0"
  ELSE IF RLe(ti, tf) THEN "ti > tf"
  ELSE IF RLe(Rat(1, 1), delta_t) \/ RLt(delta_t, Rat(0, 1)) THEN "0 < delta_t < 1"
  ELSE ""

\* round(log(q) / -log(d)) for q > 0 and 0 < d < 1, from s: the least s with
\* q < (1/d)^(s + 1/2), that is q^2 * d^(2s+1) < 1
RECURSIVE RoundLog(_, _, _)
RoundLog(q, d, s) ==
  IF q.num * q.num * d.num ^ (2 * s + 1) < q.den * q.den * d.den ^ (2 * s + 1)
  THEN s ELSE RoundLog(q, d, s + 1)

\* static_cast<uint>(round((log(tf) - log(ti)) / log(delta_t))) for arguments
\* that passed the tests: log(0) is -inf and the quotient 0; the conversion
\* of a NaN or an infinite quotient to unsigned is undefined
Steps(ti, tf, delta_t) ==
  IF IsNaN(ti) \/ IsNaN(tf) \/ IsNaN(delta_t) \/ IsInf(ti) THEN 0..MaxUbSteps
  ELSE IF delta_t.num = 0 THEN {0}
  ELSE {RoundLog(RDiv(ti, tf), delta_t, 0)}

\* the method of the Anneal a returns ret: its locals are no more
Returned(a, ret) ==
  [NewAnneal(a.nover_) EXCEPT !.calls = a.calls, !.op = a.op, !.pc = "returned",
                              !.ti = a.ti, !.tf = a.tf, !.delta_t = a.delta_t,
                              !.ret = ret, !.touched = a.touched, !.entry = a.entry]

\* a method of the Anneal a is called on the State st and the Plan p
AnCall(a, op, st, p) ==
  [NewAnneal(a.nover_) EXCEPT !.calls = a.calls + 1, !.op = op, !.pc = "loop",
                              !.entry = p]

\* Anneal::calibrateTi up to the first test of i < nover_ / 50
TiCalled(a, st, p) ==
  [AnCall(a, "calibrateTi", st, p) EXCEPT !.t0 = Rat(2, 1), !.a = 0, !.n = 1, !.i = 0]

\* Anneal::calibrateTf up to the first test of n < STATE_SETUP_TRIES
TfCalled(a, st, p) ==
  [AnCall(a, "calibrateTf", st, p) EXCEPT !.de_min = Energy(st, p), !.n = 0, !.touched = TRUE]

\* the Anneal when anneal has passed its tests and found steps = s
AnnealEntered(c, s, st, p) ==
  IF 1 <= s
  THEN [c EXCEPT !.temp = c.ti, !.e = Energy(st, p), !.steps = s,
                 !.nlimit = c.nover_ \div 50, !.n = 1, !.l = 0, !.k = 0,
                 !.touched = TRUE]
  ELSE Returned([c EXCEPT !.touched = TRUE], Rat(0, 1))

\* Anneal::anneal(ti, tf, delta_t) up to the first test of k < nover_: what
\* the Anneal may be then
AnnealCalled(a, ti, tf, delta_t, st, p) ==
  IF AnnealCheck(ti, tf, delta_t) # ""
  THEN {[AnCall(a, "anneal", st, p) EXCEPT !.ti = ti, !.tf = tf, !.delta_t = delta_t,
                                           !.pc = "thrown",
                                           !.what = AnnealCheck(ti, tf, delta_t)]}
  ELSE {AnnealEntered([AnCall(a, "anneal", st, p) EXCEPT !.ti = ti, !.tf = tf,
                                                         !.delta_t = delta_t], s, st, p)
          : s \in Steps(ti, tf, delta_t)}

\* no Anneal and no StaffPlanner is in use
RnNone ==
  [pc |-> "none", samplers_ |-> <<>>, week_ |-> 0,
   temp_sched_ |-> Rat(0, 1), comfort_weight_ |-> Rat(0, 1),
   i |-> 0, sum0 |-> Rat(0, 1), sum1 |-> Rat(0, 1),
   ti |-> Rat(0, 1), tf |-> Rat(0, 1), what |-> "", runs |-> 0]
AnIdle ==
  /\ an = AnNone
  /\ rn = RnNone

---------------------------------------------------------------------------
(* Regular expressions built by a caller of regexp.h: operator*, operator+, *)
(* operator&, kstar and derivative applied to expressions already built.    *)

\* letters of the expressions built in ra, rb, rc
RexLetters == {ShiftA, ShiftB}

\* number of nodes of an expression
RECURSIVE Size(_)
Size(r) ==
  CASE r.type \in {"Zer", "One", "Lit"} -> 1
    [] r.type \in {"Sum", "And"} ->
         LET RECURSIVE Tot(_)
             Tot(S) == IF S = {} THEN 0
                       ELSE LET p == CHOOSE x \in S : TRUE IN Size(p) + Tot(S \ {p})
         IN 1 + Tot(r.items)
    [] r.type = "Prd" ->
         LET RECURSIVE Tot(_)
             Tot(q) == IF Len(q) = 0 THEN 0 ELSE Size(q[1]) + Tot(Tail(q))
         IN 1 + Tot(r.items)
    [] r.type = "Kst" -> 1 + Size(r.item)

\* RegExp<T>::zero, RegExp<T>::one and RegExp(const T &l)
BaseRex == {Zer, One} \cup {Lit(l) : l \in RexLetters}

\* no State is in use
StIdle ==
  /\ state = [samplers_ |-> <<>>]
  /\ plan = NewPlan(0, 0, 0, <<>>)
  /\ sop = "none"
  /\ napply = 0
  /\ hist = [fresh |-> FALSE, e0 |-> Rat(0, 1), de |-> Rat(0, 1)]

\* no Fsm is in use
FsmIdle ==
  /\ fsm_r = Zer
  /\ fsm = NewFsm(Zer, <<>>, <<>>)
  /\ word = <<>>
  /\ fop = "none"
  /\ sampled = [ok |-> FALSE, word |-> <<>>]
  /\ pre = [ok |-> FALSE, word |-> <<>>, trace |-> <<>>, fit |-> ""]

RexInit ==
  /\ ShIdle
  /\ ra \in BaseRex
  /\ rb \in BaseRex
  /\ rc \in BaseRex
  /\ FsmIdle
  /\ StIdle
  /\ AnIdle

\* RegExp::operator+ (ra + rb and rb + ra)
RexSum ==
  /\ \E r \in {SumMake(ra, rb), SumMake(rb, ra)} : Size(r) <= MaxRexSize /\ ra' = r
  /\ UNCHANGED <<rb, rc, fsmVars, stVars, anVars, shVars>>

\* RegExp::operator& (ra & rb and rb & ra)
RexAnd ==
  /\ \E r \in {AndMake(ra, rb), AndMake(rb, ra)} : Size(r) <= MaxRexSize /\ ra' = r
  /\ UNCHANGED <<rb, rc, fsmVars, stVars, anVars, shVars>>

\* RegExp::operator* (ra * rb and rb * ra)
RexPrd ==
  /\ \E r \in {PrdMake(ra, rb), PrdMake(rb, ra)} : Size(r) <= MaxRexSize /\ ra' = r
  /\ UNCHANGED <<rb, rc, fsmVars, stVars, anVars, shVars>>

\* RegExp::kstar
RexKst ==
  /\ Size(KstMake(ra)) <= MaxRexSize
  /\ ra' = KstMake(ra)
  /\ UNCHANGED <<rb, rc, fsmVars, stVars, anVars, shVars>>

\* RegExp::derivative(const T &)
RexDerive ==
  /\ \E l \in RexLetters : Size(Derivative(ra, l)) <= MaxRexSize /\ ra' = Derivative(ra, l)
  /\ UNCHANGED <<rb, rc, fsmVars, stVars, anVars, shVars>>

\* RegExp::operator= : keep the expression built so far as a later operand
RexAssign ==
  /\ Size(ra) <= MaxOperandSize
  /\ \/ rb' = ra /\ rc' = rc
     \/ rc' = ra /\ rb' = rb
  /\ \E r \in BaseRex : ra' = r
  /\ UNCHANGED <<fsmVars, stVars, anVars, shVars>>

RexNext == RexSum \/ RexAnd \/ RexPrd \/ RexKst \/ RexDerive \/ RexAssign

SpecRex == RexInit /\ [][RexNext]_vars

---------------------------------------------------------------------------
(* A caller of regexp.h that builds products and stars of one literal.      *)

StarInit ==
  /\ ShIdle
  /\ ra = Lit(ShiftA) /\ rb = Lit(ShiftA) /\ rc = Zer
  /\ FsmIdle
  /\ StIdle
  /\ AnIdle

\* RegExp::operator* (ra * rb and rb * ra)
StarPrd ==
  /\ \E r \in {PrdMake(ra, rb), PrdMake(rb, ra)} : Size(r) <= MaxStarSize /\ ra' = r
  /\ UNCHANGED <<rb, rc, fsmVars, stVars, anVars, shVars>>

\* RegExp::kstar
StarKst ==
  /\ Size(KstMake(ra)) <= MaxStarSize
  /\ ra' = KstMake(ra)
  /\ UNCHANGED <<rb, rc, fsmVars, stVars, anVars, shVars>>

\* RegExp::operator= : keep the expression built so far as the other operand
StarAssign ==
  /\ rb' = ra
  /\ ra' = Lit(ShiftA)
  /\ UNCHANGED <<rc, fsmVars, stVars, anVars, shVars>>

StarNext == StarPrd \/ StarKst \/ StarAssign

SpecStar == StarInit /\ [][StarNext]_vars

---------------------------------------------------------------------------
(* A caller of regexp.h that builds intersections and products of one      *)
(* literal and of the empty word, and takes their derivatives.              *)

FlatBase == {One, Lit(ShiftA)}

FlatInit ==
  /\ ShIdle
  /\ ra \in FlatBase /\ rb \in FlatBase /\ rc = Zer
  /\ FsmIdle
  /\ StIdle
  /\ AnIdle

\* RegExp::operator& with the kept expression or a new one
FlatAnd ==
  /\ \E s \in {rb} \cup FlatBase :
       \E r \in {AndMake(ra, s), AndMake(s, ra)} : Size(r) <= MaxFlatSize /\ ra' = r
  /\ UNCHANGED <<rb, rc, fsmVars, stVars, anVars, shVars>>

\* RegExp::operator* with the kept expression or a new one
FlatPrd ==
  /\ \E s \in {rb} \cup FlatBase :
       \E r \in {PrdMake(ra, s), PrdMake(s, ra)} : Size(r) <= MaxFlatSize /\ ra' = r
  /\ UNCHANGED <<rb, rc, fsmVars, stVars, anVars, shVars>>

\* RegExp::derivative(const T &)
FlatDerive ==
  /\ ra' = Derivative(ra, ShiftA)
  /\ UNCHANGED <<rb, rc, fsmVars, stVars, anVars, shVars>>

\* RegExp::operator= : keep the expression built so far as a later operand
FlatAssign ==
  /\ Size(ra) <= MaxOperandSize
  /\ rb' = ra
  /\ \E r \in FlatBase : ra' = r
  /\ UNCHANGED <<rc, fsmVars, stVars, anVars, shVars>>

FlatNext == FlatAnd \/ FlatPrd \/ FlatDerive \/ FlatAssign

SpecFlat == FlatInit /\ [][FlatNext]_vars

---------------------------------------------------------------------------
(* A caller of fsm.h: an Fsm is constructed from an expression and then    *)
(* sampled, resampled and resampled with a fitness function in any order.  *)

\* the expressions an Fsm is constructed from
FsmRules ==
  {One,
   KstMake(Lit(ShiftA)),
   SumMake(One, Lit(ShiftA)),
   PrdMake(Lit(ShiftA), KstMake(Lit(ShiftB))),
   KstMake(SumMake(Lit(ShiftA), Lit(ShiftR))),
   PrdMake(SumMake(Lit(ShiftA), Lit(ShiftB)), SumMake(Lit(ShiftB), Lit(ShiftR))),
   SumMake(PrdMake(Lit(ShiftA), SumMake(PrdMake(Lit(ShiftA), Lit(ShiftA)),
                                        PrdMake(Lit(ShiftA), Lit(ShiftB)))),
           PrdMake(Lit(ShiftB), PrdMake(Lit(ShiftA), SumMake(Lit(ShiftA), Lit(ShiftB))))),
   PrdMake(Lit(ShiftA), AndMake(PrdMake(Lit(ShiftA), Lit(ShiftA)),
                                PrdMake(Lit(ShiftA), Lit(ShiftB))))}

\* the fitness functions handed to resample(fitness)
FitnessNames == {"zero", "rest", "later", "alternate"}
Fitness(name) ==
  [i \in Nat, res \in Seq(Letters), l \in Letters |->
     CASE name = "zero" -> Rat(0, 1)
       [] name = "rest" -> IF Work(l) THEN Rat(1, 1) ELSE Rat(-1, 1)
       [] name = "later" -> Rat(0 - T0(l), 1)
       [] name = "alternate" -> IF Len(res) > 0 /\ ShiftEq(res[Len(res)], l) THEN Rat(1, 2) ELSE Rat(0 - i, 1)]

FsmInit ==
  /\ ShIdle
  /\ ra = Zer /\ rb = Zer /\ rc = Zer
  /\ fsm_r \in FsmRules
  /\ fsm \in FsmsOf(fsm_r)
  /\ word = <<>>
  /\ fop = "new"
  /\ sampled = [ok |-> FALSE, word |-> <<>>]
  /\ pre = [ok |-> FALSE, word |-> <<>>, trace |-> <<>>, fit |-> ""]
  /\ StIdle
  /\ AnIdle

\* the effect of an outcome o of sample() on the sampler and on the caller
SampleDone(o, name) ==
  /\ fsm' = [fsm EXCEPT !.states_trace_ = o.trace]
  /\ word' = o.res
  /\ fop' = IF o.ok THEN name ELSE "throw"
  /\ sampled' = [ok |-> o.ok, word |-> o.res]

\* Fsm::sample()
FsmSample ==
  /\ \E o \in Sample(fsm, MaxSampleLen) : SampleDone(o, "sample")
  /\ UNCHANGED <<shVars, rexVars, fsm_r, pre, stVars, anVars>>

\* Fsm::resample()
FsmResample ==
  /\ pre' = [ok |-> sampled.ok, word |-> sampled.word, trace |-> fsm.states_trace_, fit |-> ""]
  /\ IF Len(fsm.states_trace_) < 2
     THEN \E o \in Sample(fsm, MaxSampleLen) : SampleDone(o, "resample")
     ELSE /\ \E o \in Resample(fsm) :
               /\ word' = o.res
               /\ fop' = IF o.ok THEN "resample" ELSE "throw"
          /\ UNCHANGED <<fsm, sampled>>
  /\ UNCHANGED <<shVars, rexVars, fsm_r, stVars, anVars>>

\* Fsm::resample(fitness)
FsmResampleFitness ==
  \E name \in FitnessNames :
    /\ pre' = [ok |-> sampled.ok, word |-> sampled.word, trace |-> fsm.states_trace_,
               fit |-> name]
    /\ IF Len(fsm.states_trace_) < 2
       THEN \E o \in Sample(fsm, MaxSampleLen) : SampleDone(o, "resample")
       ELSE /\ word' = ResampleFitness(fsm, Fitness(name)).res
            /\ fop' = IF ResampleFitness(fsm, Fitness(name)).ok THEN "resample" ELSE "throw"
            /\ UNCHANGED <<fsm, sampled>>
  /\ UNCHANGED <<shVars, rexVars, fsm_r, stVars, anVars>>

FsmNext == FsmSample \/ FsmResample \/ FsmResampleFitness

SpecFsm == FsmInit /\ [][FsmNext]_vars

---------------------------------------------------------------------------
(* A caller of staff_state.h: a State is constructed on a fresh Plan, for   *)
(* its first or its last week, and then mutate and apply_mutation are      *)
(* called in any order.                                                    *)

\* the product of the expressions of a sequence, built with operator*
RECURSIVE PrdOf(_)
PrdOf(rs) == IF Len(rs) = 1 THEN rs[1] ELSE PrdMake(rs[1], PrdOf(Tail(rs)))

\* rules of agents: a shift or a choice of shifts on each day of the week
RuleAB ==
  PrdOf(<<SumMake(Lit(ShiftA), Lit(ShiftB)), Lit(ShiftA), Lit(ShiftA), Lit(ShiftA),
          Lit(ShiftA), Lit(ShiftA), SumMake(Lit(ShiftA), Lit(ShiftB))>>)
RuleAR ==
  PrdOf(<<SumMake(Lit(ShiftA), Lit(ShiftR)), Lit(ShiftR), Lit(ShiftR), Lit(ShiftR),
          Lit(ShiftR), Lit(ShiftR), Lit(ShiftR)>>)
RuleRest ==
  PrdOf(<<Lit(ShiftR), Lit(ShiftR), Lit(ShiftR), Lit(ShiftR),
          Lit(ShiftR), Lit(ShiftR), Lit(ShiftR)>>)
\* a rule that leaves the seventh day open
RuleLoose ==
  PrdOf(<<Lit(ShiftR), Lit(ShiftR), Lit(ShiftR), Lit(ShiftR),
          Lit(ShiftR), Lit(ShiftR), SumMake(One, Lit(ShiftA))>>)
\* the rule of agent a (from 1) of a State
AgentRule(a) == IF a = 1 THEN RuleAB ELSE IF a = 2 THEN RuleAR ELSE RuleRest

\* the letters of a set in the order of Shift::operator<
RECURSIVE Sorted(_)
Sorted(S) ==
  IF S = {} THEN <<>>
  ELSE LET x == CHOOSE y \in S : \A z \in S : ~ ShiftLt(z, y)
       IN <<x>> \o Sorted(S \ {x})

\* the sampler of a rule when the alphabet and its map iterate in the order
\* of Shift::operator< (FsmsOf holds the samplers of every order)
SamplerOf(r) ==
  NewFsm(r, Sorted(AlphabetOf(r)), [k \in 1..Cardinality(AlphabetOf(r)) |-> k - 1])

\* the samplers of n agents
SamplersOf(n) == [a \in 1..n |-> SamplerOf(AgentRule(a))]

\* the samplers that a State is constructed with
StSamplers == {SamplersOf(n) : n \in 1..MaxAgents} \cup {<<SamplerOf(RuleLoose)>>}

\* the target of a plan of the given days: an agent in every slot
UnitTarget(days) == NewTarget([i \in 1..(days * SLOTS_DAY) |-> 1])

StInit ==
  /\ ShIdle
  /\ ra = Zer /\ rb = Zer /\ rc = Zer
  /\ FsmIdle
  /\ \E samplers \in StSamplers, week \in {0, PlanWeeks - 1} :
       \E c \in NewState(samplers, week,
                         NewPlan(0, Len(samplers), WEEK_DAYS * PlanWeeks,
                                 UnitTarget(WEEK_DAYS * PlanWeeks))) :
         /\ state = c.state
         /\ plan = c.plan
  /\ sop = "new"
  /\ napply = 0
  /\ hist = [fresh |-> FALSE, e0 |-> Rat(0, 1), de |-> Rat(0, 1)]
  /\ AnIdle

\* State::mutate
StMutate ==
  /\ state' \in Mutate(state, plan)
  /\ sop' = "mutate"
  /\ UNCHANGED <<shVars, rexVars, fsmVars, plan, napply, hist, anVars>>

\* State::apply_mutation
StApplyMutation ==
  /\ napply < MaxApplies
  /\ plan' = ApplyMutation(state, plan)
  /\ sop' = "apply"
  /\ napply' = napply + 1
  /\ \E read \in ReadWeek(state.mutd_pln_) :
       hist' = [fresh |-> sop \in {"new", "mutate"},
                e0 |-> Energy(state, plan),
                de |-> DeltaEnergy([state EXCEPT !.mutd_pln_ = read], plan)]
  /\ UNCHANGED <<shVars, rexVars, fsmVars, state, anVars>>

StNext == StMutate \/ StApplyMutation

SpecState == StInit /\ [][StNext]_vars

---------------------------------------------------------------------------
(* The methods of anneal::Anneal, a step of a loop at a time *)

\* a variant of CalibrateTiStep that commits an accepted candidate twice
CalibrateTiStepTwice ==
  /\ an.op = "calibrateTi" /\ an.pc = "loop"
  /\ an.i < an.nover_ \div 50
  /\ \E st \in Mutate(state, plan) :
       \E acc \in Metropolis(DeltaEnergy(st, plan), an.t0) :
         /\ state' = st
         /\ plan' = IF acc THEN ApplyMutation(st, ApplyMutation(st, plan)) ELSE plan
         /\ an' = [an EXCEPT !.n = @ + 1,
                             !.a = IF acc THEN @ + 1 ELSE @,
                             !.i = @ + 1,
                             !.touched = TRUE]
  /\ UNCHANGED <<shVars, rexVars, fsmVars, sop, napply, hist, rn>>

\* one pass of the for loop of calibrateTi
CalibrateTiStep ==
  /\ an.op = "calibrateTi" /\ an.pc = "loop"
  /\ an.i < an.nover_ \div 50
  /\ \E st \in Mutate(state, plan) :
       \E acc \in Metropolis(DeltaEnergy(st, plan), an.t0) :
         /\ state' = st
         /\ plan' = IF acc THEN ApplyMutation(st, plan) ELSE plan
         /\ an' = [an EXCEPT !.n = @ + 1,
                             !.a = IF acc THEN @ + 1 ELSE @,
                             !.i = @ + 1,
                             !.touched = TRUE]
  /\ UNCHANGED <<shVars, rexVars, fsmVars, sop, napply, hist, rn>>

\* the end of a pass of the while loop of calibrateTi: chi is computed, t0
\* is doubled, and either another pass begins or t0 is returned
CalibrateTiBatch ==
  /\ an.op = "calibrateTi" /\ an.pc = "loop"
  /\ an.i = an.nover_ \div 50
  /\ an.t0.num < 2 ^ (MaxDoublings + 1)
  /\ an' = IF RLt(Rat(an.a, an.n), CHI0)
           THEN [an EXCEPT !.t0 = RMul(@, Rat(2, 1)), !.a = 0, !.n = 1, !.i = 0]
           ELSE Returned(an, RMul(an.t0, Rat(2, 1)))
  /\ UNCHANGED <<shVars, rexVars, fsmVars, stVars, rn>>

\* a variant of CalibrateTfStep that commits the candidate
CalibrateTfStepCommit ==
  /\ an.op = "calibrateTf" /\ an.pc = "loop"
  /\ an.n < STATE_SETUP_TRIES
  /\ \E st \in Mutate(state, plan) :
       /\ state' = st
       /\ plan' = ApplyMutation(st, plan)
       /\ an' = [an EXCEPT !.n = @ + 1,
                           !.de_min = IF /\ RLt(Rat(0, 1), RAbs(DeltaEnergy(st, plan)))
                                         /\ RLt(RAbs(DeltaEnergy(st, plan)), @)
                                      THEN RAbs(DeltaEnergy(st, plan)) ELSE @]
  /\ UNCHANGED <<shVars, rexVars, fsmVars, sop, napply, hist, rn>>

\* one pass of the for loop of calibrateTf
CalibrateTfStep ==
  /\ an.op = "calibrateTf" /\ an.pc = "loop"
  /\ an.n < STATE_SETUP_TRIES
  /\ \E st \in Mutate(state, plan) :
       /\ state' = st
       /\ an' = [an EXCEPT !.n = @ + 1,
                           !.de_min = IF /\ RLt(Rat(0, 1), RAbs(DeltaEnergy(st, plan)))
                                         /\ RLt(RAbs(DeltaEnergy(st, plan)), @)
                                      THEN RAbs(DeltaEnergy(st, plan)) ELSE @]
  /\ UNCHANGED <<shVars, rexVars, fsmVars, plan, sop, napply, hist, rn>>

\* calibrateTf returns de_min
CalibrateTfReturn ==
  /\ an.op = "calibrateTf" /\ an.pc = "loop"
  /\ an.n = STATE_SETUP_TRIES
  /\ an' = Returned(an, an.de_min)
  /\ UNCHANGED <<shVars, rexVars, fsmVars, stVars, rn>>

\* a variant of AnnealStep without the break at l > nlimit
AnnealStepNoBreak ==
  /\ an.op = "anneal" /\ an.pc = "loop"
  /\ ~ an.brk /\ an.k < an.nover_
  /\ \E st \in Mutate(state, plan) :
       \E acc \in Metropolis(DeltaEnergy(st, plan), an.temp) :
         /\ state' = st
         /\ plan' = IF acc THEN ApplyMutation(st, plan) ELSE plan
         /\ an' = [an EXCEPT !.e = IF acc THEN RAdd(@, DeltaEnergy(st, plan)) ELSE @,
                             !.l = IF acc THEN @ + 1 ELSE @,
                             !.k = @ + 1]
  /\ UNCHANGED <<shVars, rexVars, fsmVars, sop, napply, hist, rn>>

\* one pass of the inner for loop of anneal
AnnealStep ==
  /\ an.op = "anneal" /\ an.pc = "loop"
  /\ ~ an.brk /\ an.k < an.nover_
  /\ \E st \in Mutate(state, plan) :
       \E acc \in Metropolis(DeltaEnergy(st, plan), an.temp) :
         /\ state' = st
         /\ plan' = IF acc THEN ApplyMutation(st, plan) ELSE plan
         /\ an' = LET l == IF acc THEN an.l + 1 ELSE an.l
                  IN [an EXCEPT !.e = IF acc THEN RAdd(@, DeltaEnergy(st, plan)) ELSE @,
                                !.l = l,
                                !.brk = l > an.nlimit,
                                !.k = IF l > an.nlimit THEN @ ELSE @ + 1]
  /\ UNCHANGED <<shVars, rexVars, fsmVars, sop, napply, hist, rn>>

\* the end of a pass of the outer for loop of anneal
AnnealLevelEnd ==
  /\ an.op = "anneal" /\ an.pc = "loop"
  /\ an.brk \/ an.k = an.nover_
  /\ an' = IF an.l < 10 \/ an.n + 1 > an.steps
           THEN Returned(an, Rat(0, 1))
           ELSE [an EXCEPT !.e = Energy(state, plan), !.temp = RMul(@, an.delta_t),
                           !.n = @ + 1, !.l = 0, !.k = 0, !.brk = FALSE]
  /\ UNCHANGED <<shVars, rexVars, fsmVars, stVars, rn>>

---------------------------------------------------------------------------
(* A caller of anneal.h: an Anneal is constructed on a State of one agent  *)
(* and its methods are called, one after the return of the other, anneal   *)
(* with any arguments.                                                     *)

\* the rule of an agent that works or rests on the first day and rests on
\* the others
RuleFirstDay ==
  PrdOf(<<SumMake(SumMake(Lit(ShiftA), Lit(ShiftB)), Lit(ShiftR)), Lit(ShiftR),
          Lit(ShiftR), Lit(ShiftR), Lit(ShiftR), Lit(ShiftR), Lit(ShiftR)>>)

\* the rule of the agent and the nover of the Anneal
AnScenarios ==
  {[rule |-> RuleFirstDay, nover |-> 50],
   [rule |-> RuleRest, nover |-> 500],
   [rule |-> RuleRest, nover |-> 100]}

\* the arguments of anneal
AnnealTi == {Rat(-1, 1), Rat(0, 1), Rat(4, 1)}
AnnealTf == {Rat(-1, 1), Rat(0, 1), Rat(1, 1), Rat(4, 1)}
AnnealDelta == {Rat(-1, 2), Rat(0, 1), Rat(1, 2), Rat(1, 1), Rat(3, 2), NaN}

AnInit ==
  /\ ShIdle
  /\ ra = Zer /\ rb = Zer /\ rc = Zer
  /\ FsmIdle
  /\ \E sc \in AnScenarios :
       /\ \E c \in NewState(<<SamplerOf(sc.rule)>>, 0,
                            NewPlan(0, 1, WEEK_DAYS, UnitTarget(WEEK_DAYS))) :
            /\ state = c.state
            /\ plan = c.plan
       /\ an = NewAnneal(sc.nover)
  /\ sop = "new"
  /\ napply = 0
  /\ hist = [fresh |-> FALSE, e0 |-> Rat(0, 1), de |-> Rat(0, 1)]
  /\ rn = RnNone

\* no method of the Anneal is running and the caller may call another
AnFree ==
  /\ rn.pc = "none"
  /\ an.pc \in {"idle", "returned", "thrown"}
  /\ an.calls < MaxCalls

CallCalibrateTi ==
  /\ AnFree
  /\ an' = TiCalled(an, state, plan)
  /\ UNCHANGED <<shVars, rexVars, fsmVars, stVars, rn>>

CallCalibrateTf ==
  /\ AnFree
  /\ an' = TfCalled(an, state, plan)
  /\ UNCHANGED <<shVars, rexVars, fsmVars, stVars, rn>>

CallAnneal ==
  /\ AnFree
  /\ \E ti \in AnnealTi, tf \in AnnealTf, delta_t \in AnnealDelta :
       an' \in AnnealCalled(an, ti, tf, delta_t, state, plan)
  /\ UNCHANGED <<shVars, rexVars, fsmVars, stVars, rn>>

AnNext ==
  \/ CallCalibrateTi \/ CallCalibrateTf \/ CallAnneal
  \/ CalibrateTiStep \/ CalibrateTiBatch
  \/ CalibrateTfStep \/ CalibrateTfReturn
  \/ AnnealStep \/ AnnealLevelEnd

SpecAnneal == AnInit /\ [][AnNext]_vars

\* a pass of a loop that calls mutate() is to be taken
MutatePassDue ==
  /\ an.pc = "loop"
  /\ \/ an.op = "calibrateTi" /\ an.i < an.nover_ \div 50
     \/ an.op = "calibrateTf" /\ an.n < STATE_SETUP_TRIES
     \/ an.op = "anneal" /\ ~ an.brk /\ an.k < an.nover_

\* the end of a level of anneal can be taken
LevelEndDue == an.op = "anneal" /\ an.pc = "loop" /\ (an.brk \/ an.k = an.nover_)

\* a method that was called runs on: every pass of its loops is taken.  The
\* weak fairness of CalibrateTiStep, CalibrateTfStep, AnnealStep and
\* AnnealLevelEnd is written out, with the guard of the action for ENABLED:
\* each of their steps changes an, and no other step does in such a state
AnFair ==
  /\ WF_vars(CalibrateTiBatch)
  /\ WF_vars(CalibrateTfReturn)
  /\ ([]<>~MutatePassDue) \/ ([]<><<MutatePassDue /\ an' # an>>_vars)
  /\ ([]<>~LevelEndDue) \/ ([]<><<LevelEndDue /\ an' # an>>_vars)

SpecAnnealFair == AnInit /\ [][AnNext]_vars /\ AnFair

---------------------------------------------------------------------------
(* Calls of StaffPlanner::run() one after the other on the same planner and *)
(* week: each constructs a State on plan_, the Plan that the planner keeps, *)
(* and commits mutations (mutate() then apply_mutation()).                  *)

\* the planner has constructed the State of its first run()
RerunInit ==
  /\ ShIdle
  /\ ra = Zer /\ rb = Zer /\ rc = Zer
  /\ FsmIdle
  /\ \E samplers \in StSamplers, week \in {0, PlanWeeks - 1} :
       /\ \E c \in NewState(samplers, week,
                            NewPlan(0, Len(samplers), WEEK_DAYS * PlanWeeks,
                                    UnitTarget(WEEK_DAYS * PlanWeeks))) :
            /\ state = c.state
            /\ plan = c.plan
       /\ rn = [RnNone EXCEPT !.pc = "run", !.samplers_ = samplers,
                              !.week_ = week, !.runs = 1]
  /\ sop = "new"
  /\ napply = 0
  /\ hist = [fresh |-> FALSE, e0 |-> Rat(0, 1), de |-> Rat(0, 1)]
  /\ an = AnNone

\* a mutation is committed: mutate() and apply_mutation()
RerunCommit ==
  /\ napply < MaxApplies
  /\ \E st \in Mutate(state, plan) :
       /\ state' = st
       /\ plan' = ApplyMutation(st, plan)
  /\ sop' = "apply"
  /\ napply' = napply + 1
  /\ UNCHANGED <<shVars, rexVars, fsmVars, hist, anVars>>

\* the next run() constructs its State on the Plan as the last run left it
RerunConstruct ==
  /\ rn.runs < MaxRuns
  /\ \E c \in NewState(rn.samplers_, rn.week_, plan) :
       /\ state' = c.state
       /\ plan' = c.plan
  /\ sop' = "new"
  /\ napply' = 0
  /\ rn' = [rn EXCEPT !.runs = @ + 1]
  /\ UNCHANGED <<shVars, rexVars, fsmVars, hist, an>>

RerunNext == RerunCommit \/ RerunConstruct

SpecRerun == RerunInit /\ [][RerunNext]_vars

---------------------------------------------------------------------------
(* StaffPlanner::setWeek on a planner of one agent with a plan of any        *)
(* length.  An unsigned int of 32 bits is held as its two halves of 16 bits. *)

HALF == 2 ^ 16

\* static_cast<uint>(i) of an int i
ToU32(i) == [hi |-> (i \div HALF) % HALF, lo |-> i % HALF]

\* u * k in unsigned int, for a small k
U32Mul(u, k) ==
  [hi |-> (u.hi * k + (u.lo * k) \div HALF) % HALF, lo |-> (u.lo * k) % HALF]

\* u - v in unsigned int
U32Sub(u, v) ==
  [hi |-> (u.hi - v.hi - (IF u.lo < v.lo THEN 1 ELSE 0)) % HALF,
   lo |-> (u.lo - v.lo) % HALF]

\* u > v in unsigned int
U32Gt(u, v) == u.hi > v.hi \/ (u.hi = v.hi /\ u.lo > v.lo)

\* the test of StaffPlanner::setWeek: w * 7 > plan_.days() - 7
WeekExceeds(w, days) == U32Gt(U32Mul(w, 7), U32Sub(ToU32(days), ToU32(7)))

\* StaffPlanner::setWeek(week); week_ holds the unsigned int
SetWeek(week) ==
  /\ rn.pc \in {"ready", "thrown"}
  /\ rn' = IF WeekExceeds(ToU32(week), plan.days_)
           THEN [rn EXCEPT !.pc = "thrown", !.what = "week exceed plan length"]
           ELSE [rn EXCEPT !.pc = "ready", !.what = "", !.week_ = ToU32(week)]
  /\ UNCHANGED <<shVars, rexVars, fsmVars, stVars, an>>

\* the arguments of setWeek: small weeks, negative weeks, and weeks whose
\* product with 7 passes 2^32
WeekArgs ==
  {-613566757, -2, -1, 0, 1, 2, 3, 613566756, 613566757, 613566758, 2147483647}

\* a planner of one agent on a plan of any number of days
WeekInit ==
  /\ ShIdle
  /\ ra = Zer /\ rb = Zer /\ rc = Zer
  /\ FsmIdle
  /\ state = [samplers_ |-> <<>>]
  /\ \E days \in 0..MaxPlanDays : plan = NewPlan(0, 1, days, UnitTarget(days))
  /\ sop = "none"
  /\ napply = 0
  /\ hist = [fresh |-> FALSE, e0 |-> Rat(0, 1), de |-> Rat(0, 1)]
  /\ an = AnNone
  /\ rn = [RnNone EXCEPT !.pc = "ready",
                         !.samplers_ = <<SamplerOf(RuleRest)>>,
                         !.week_ = ToU32(0)]

WeekNext == \E week \in WeekArgs : SetWeek(week)

SpecWeek == WeekInit /\ [][WeekNext]_vars

---------------------------------------------------------------------------
(* StaffPlanner::run on a planner of one agent with a rule of RunRules, week *)
(* 0 of a plan of seven days.  rn holds the members of the planner, where   *)
(* run() stands (pc), the locals of State::calibrate and ti and tf.         *)

\* the targets of the plan: no agent in any slot, an agent in every slot
RunTargets ==
  {NewTarget([i \in 1..(WEEK_DAYS * SLOTS_DAY) |-> 0]), UnitTarget(WEEK_DAYS)}

\* the rule of an agent that works on the first day, early or late, and
\* rests on the others
RuleWorkDay ==
  PrdOf(<<SumMake(Lit(ShiftA), Lit(ShiftB)), Lit(ShiftR), Lit(ShiftR),
          Lit(ShiftR), Lit(ShiftR), Lit(ShiftR), Lit(ShiftR)>>)

\* the rule of the agent of the planner
RunRules == {RuleRest, RuleWorkDay}

\* the comfort_weight of the planner
RunWeights == {Rat(0, 1), Rat(1, 1)}

\* StaffPlanner::StaffPlanner and setAgentSampler for its agent
RunInit ==
  /\ ShIdle
  /\ ra = Zer /\ rb = Zer /\ rc = Zer
  /\ FsmIdle
  /\ state = [samplers_ |-> <<>>]
  /\ \E target \in RunTargets : plan = NewPlan(0, 1, WEEK_DAYS, target)
  /\ sop = "none"
  /\ napply = 0
  /\ hist = [fresh |-> FALSE, e0 |-> Rat(0, 1), de |-> Rat(0, 1)]
  /\ an = AnNone
  /\ \E w \in RunWeights, rule \in RunRules :
       rn = [RnNone EXCEPT !.pc = "ready",
                           !.samplers_ = <<SamplerOf(rule)>>,
                           !.week_ = 0,
                           !.temp_sched_ = Rat(1, 2),
                           !.comfort_weight_ = w]

\* nover of run()
RunNover == 10 * NOVER * Len(rn.samplers_)

\* run() from its start: the State is constructed and calibrate is called;
\* with a weight of 0 calibrate returns at once, the Anneal is constructed
\* and calibrateTi is called
RunStart ==
  /\ rn.pc = "ready"
  /\ \E c \in NewState(rn.samplers_, rn.week_, plan) :
       /\ plan' = c.plan
       /\ IF rn.comfort_weight_ = Rat(0, 1)
          THEN /\ state' = [c.state EXCEPT !.w1_ = Rat(0, 1)]
               /\ an' = TiCalled(NewAnneal(RunNover), state', plan')
               /\ rn' = [rn EXCEPT !.pc = "calibrateTi"]
          ELSE /\ state' = c.state
               /\ an' = an
               /\ rn' = [rn EXCEPT !.pc = "calibrate", !.i = 1]
  /\ sop' = "new"
  /\ UNCHANGED <<shVars, rexVars, fsmVars, napply, hist>>

\* one pass of the for loop of State::calibrate
RunCalibrateStep ==
  /\ rn.pc = "calibrate"
  /\ rn.i < CalibrateN
  /\ \E st \in Mutate(state, plan) :
       /\ state' = st
       /\ plan' = ApplyMutation(st, plan)
  /\ rn' = [rn EXCEPT !.i = @ + 1,
                      !.sum0 = RAdd(@, StaffingEnergy(plan', state.week_)),
                      !.sum1 = RAdd(@, ComfortEnergy(plan', state.week_))]
  /\ UNCHANGED <<shVars, rexVars, fsmVars, sop, napply, hist, an>>

\* State::calibrate sets w1_ and returns, the Anneal is constructed and
\* calibrateTi is called
RunCalibrated ==
  /\ rn.pc = "calibrate"
  /\ rn.i = CalibrateN
  /\ state' = [state EXCEPT !.w1_ =
                 RDiv(RMul(rn.comfort_weight_, RDiv(rn.sum0, Rat(CalibrateN, 1))),
                      RDiv(rn.sum1, Rat(CalibrateN, 1)))]
  /\ an' = TiCalled(NewAnneal(RunNover), state', plan)
  /\ rn' = [rn EXCEPT !.pc = "calibrateTi"]
  /\ UNCHANGED <<shVars, rexVars, fsmVars, plan, sop, napply, hist>>

\* calibrateTi has returned ti and calibrateTf is called
RunCalibrateTf ==
  /\ rn.pc = "calibrateTi"
  /\ an.pc = "returned"
  /\ an' = TfCalled(an, state, plan)
  /\ rn' = [rn EXCEPT !.pc = "calibrateTf", !.ti = an.ret]
  /\ UNCHANGED <<shVars, rexVars, fsmVars, stVars>>

\* calibrateTf has returned tf and anneal(ti, tf, temp_sched_) is called; an
\* exception of anneal leaves run()
RunAnneal ==
  /\ rn.pc = "calibrateTf"
  /\ an.pc = "returned"
  /\ an' \in AnnealCalled(an, rn.ti, an.ret, rn.temp_sched_, state, plan)
  /\ rn' = [rn EXCEPT !.pc = IF an'.pc = "thrown" THEN "failed" ELSE "anneal",
                      !.tf = an.ret,
                      !.what = an'.what]
  /\ UNCHANGED <<shVars, rexVars, fsmVars, stVars>>

\* anneal has returned and run() returns
RunDone ==
  /\ rn.pc = "anneal"
  /\ an.pc = "returned"
  /\ rn' = [rn EXCEPT !.pc = "done"]
  /\ UNCHANGED <<shVars, rexVars, fsmVars, stVars, an>>

RunNext ==
  \/ RunStart \/ RunCalibrateStep \/ RunCalibrated
  \/ RunCalibrateTf \/ RunAnneal \/ RunDone
  \/ CalibrateTiStep \/ CalibrateTiBatch
  \/ CalibrateTfStep \/ CalibrateTfReturn
  \/ AnnealStep \/ AnnealLevelEnd

SpecRun == RunInit /\ [][RunNext]_vars

---------------------------------------------------------------------------
(* Hashing: hash_combine.h, std::hash<shift::Shift> and Rex::hash *)

\* operator^ of size_t
RECURSIVE Xor(_, _)
Xor(a, b) ==
  IF a = 0 THEN b
  ELSE IF b = 0 THEN a
  ELSE (((a % 2) + (b % 2)) % 2) + 2 * Xor(a \div 2, b \div 2)

\* hash_combine(seed, mask, hash): the seed it leaves
HashCombine(seed, mask, hash) ==
  Xor(seed, (hash + (mask % (2 ^ HASH_BITS)) + ((seed * 64) % (2 ^ HASH_BITS)) + (seed \div 4))
            % (2 ^ HASH_BITS))

\* the masks of Sum::hash, And::hash, Prd::hash and Kst::hash
SUM_MASK == 1114258737
AND_MASK == 447958497
PRD_MASK == 314159265
KST_MASK == 607759159

\* std::hash<std::string> on the codes of the model: implementation-defined;
\* codes that differ get values that differ
StrHash(code) == (CodeRank(code) * 40503) % (2 ^ HASH_BITS)

\* std::hash<shift::Shift>
ShiftHash(sh) == StrHash(sh.code)

\* the seeds left by hash_combine over the hashes hs[1], hs[2], .. in turn,
\* each any member of its set, from any of seeds
RECURSIVE SeqHashes(_, _, _)
SeqHashes(hs, mask, seeds) ==
  IF Len(hs) = 0 THEN seeds
  ELSE SeqHashes(Tail(hs), mask, {HashCombine(sd, mask, h) : sd \in seeds, h \in hs[1]})

\* Rex::hash: the values an expression equal to r may hash to; the loops of
\* Sum::hash and And::hash follow the iteration order of an unordered_set,
\* which is any order of its members
RECURSIVE RexHashes(_)
RexHashes(r) ==
  CASE r.type = "Zer" -> {0}
    [] r.type = "One" -> {1}
    [] r.type = "Lit" -> {ShiftHash(r.c)}
    [] r.type = "Sum" ->
         UNION {SeqHashes([i \in 1..Cardinality(r.items) |-> RexHashes(p[i])], SUM_MASK, {0})
                  : p \in Perms(r.items)}
    [] r.type = "And" ->
         UNION {SeqHashes([i \in 1..Cardinality(r.items) |-> RexHashes(p[i])], AND_MASK, {0})
                  : p \in Perms(r.items)}
    [] r.type = "Prd" ->
         SeqHashes([i \in 1..Len(r.items) |-> RexHashes(r.items[i])], PRD_MASK, {0})
    [] r.type = "Kst" ->
         SeqHashes(<<RexHashes(r.item)>>, KST_MASK, {0})

---------------------------------------------------------------------------
(* A caller of shift.h: two Shifts are constructed from a code and a list  *)
(* of time spans, any number of times.                                     *)

\* the codes and the time spans given to the constructor
ShiftCodes == {CodeOrder[i] : i \in 1..Len(CodeOrder)}
ShiftSpans == {<<0, 5>>, <<5, 10>>, <<0, 10>>}
SpanLists == UNION {[1..n -> ShiftSpans] : n \in 0..MaxSpans}

\* Shift::Shift(code, span): std::sort by the start of the span leaves spans
\* of equal start in any order
NewShift(code, span) ==
  {[code |-> code, span |-> [i \in 1..Len(span) |-> span[f[i]]]] :
     f \in {g \in Perms(1..Len(span)) :
              \A i \in 1..(Len(span) - 1) : span[g[i]][1] <= span[g[i + 1]][1]}}

ShInit ==
  /\ ShIdle
  /\ ra = Zer /\ rb = Zer /\ rc = Zer
  /\ FsmIdle
  /\ StIdle
  /\ AnIdle

\* sa = Shift(code, span)
ShiftNewA ==
  /\ \E code \in ShiftCodes, span \in SpanLists : sa' \in NewShift(code, span)
  /\ UNCHANGED <<sb, rexVars, fsmVars, stVars, anVars>>

\* sb = Shift(code, span)
ShiftNewB ==
  /\ \E code \in ShiftCodes, span \in SpanLists : sb' \in NewShift(code, span)
  /\ UNCHANGED <<sa, rexVars, fsmVars, stVars, anVars>>

ShNext == ShiftNewA \/ ShiftNewB

SpecShift == ShInit /\ [][ShNext]_vars

---------------------------------------------------------------------------
(* The language of an expression under the standard semantics *)

\* the words over S of length n
RECURSIVE WordsOfLen(_, _)
WordsOfLen(S, n) ==
  IF n = 0 THEN {<<>>}
  ELSE {<<l>> \o w : l \in S, w \in WordsOfLen(S, n - 1)}

\* the words over S of length at most n
WordsUpTo(S, n) == UNION {WordsOfLen(S, k) : k \in 0..n}

RexWords == WordsUpTo(RexLetters, MaxWordLen)

RECURSIVE InLang(_, _)
InLang(r, w) ==
  CASE r.type = "Zer" -> FALSE
    [] r.type = "One" -> Len(w) = 0
    [] r.type = "Lit" -> Len(w) = 1 /\ ShiftEq(w[1], r.c)
    [] r.type = "Sum" -> \E p \in r.items : InLang(p, w)
    [] r.type = "And" -> \A p \in r.items : InLang(p, w)
    [] r.type = "Prd" ->
         IF Len(r.items) = 1 THEN InLang(r.items[1], w)
         ELSE \E k \in 0..Len(w) :
                /\ InLang(r.items[1], SubSeq(w, 1, k))
                /\ InLang(Prd(Tail(r.items)), SubSeq(w, k + 1, Len(w)))
    [] r.type = "Kst" ->
         \/ Len(w) = 0
         \/ \E k \in 1..Len(w) :
                /\ InLang(r.item, SubSeq(w, 1, k))
                /\ InLang(r, SubSeq(w, k + 1, Len(w)))

---------------------------------------------------------------------------
(* Claims about the regular-expression algebra (checked under SpecRex) *)

\* C6: for every expression built with the smart constructors and every
\* word w, RegExp::match(r, w) = nullable(derivative(r, w)) is true exactly
\* when w belongs to the language of r under the standard semantics.
C6_MatchIsLanguage ==
  \A w \in RexWords : Match(ra, w) <=> InLang(ra, w)

\* a product with a nullable head that matches a word of two or more letters
C6_Witness ==
  /\ ra.type = "Prd"
  /\ Nullable(Head_(ra))
  /\ \E w \in RexWords : Len(w) >= 2 /\ Match(ra, w) /\ InLang(ra, w)

RECURSIVE StarNormal(_)
StarNormal(r) ==
  CASE r.type \in {"Zer", "One", "Lit"} -> TRUE
    [] r.type \in {"Sum", "And"} -> \A x \in r.items : StarNormal(x)
    [] r.type = "Kst" -> StarNormal(r.item)
    [] r.type = "Prd" ->
         /\ \A i \in 1..Len(r.items) : StarNormal(r.items[i])
         /\ \A i \in 1..(Len(r.items) - 1) :
              ~ (/\ r.items[i].type = "Kst"
                 /\ r.items[i + 1].type = "Kst"
                 /\ Equal(r.items[i].item, r.items[i + 1].item))

\* C20: every expression that the smart constructors build has no Prd with
\* two adjacent Kst items of equal bodies (checked under SpecStar).
C20_StarNormalForm == StarNormal(ra) /\ StarNormal(rb) /\ StarNormal(rc)

\* the items of a Sum, an And or a Prd
ItemsOf(r) ==
  IF r.type = "Prd" THEN {r.items[i] : i \in 1..Len(r.items)}
  ELSE IF r.type \in {"Sum", "And"} THEN r.items
  ELSE IF r.type = "Kst" THEN {r.item}
  ELSE {}

\* no Sum, And or Prd within r has an item of its own type or the item Zer
RECURSIVE Flat(_)
Flat(r) ==
  /\ r.type \in {"Sum", "And", "Prd"} =>
       \A x \in ItemsOf(r) : x.type # r.type /\ x.type # "Zer"
  /\ \A x \in ItemsOf(r) : Flat(x)

\* C21: every expression that the smart constructors and derivative build
\* is flat: no Sum holds a Sum, no Prd a Prd, no And an And, and Zer is no
\* item of a Sum, an And or a Prd (checked under SpecFlat).
C21_Flattened == Flat(ra) /\ Flat(rb) /\ Flat(rc)

---------------------------------------------------------------------------
(* Claims about the sampler (checked under SpecFsm) *)

\* the word w drives the Fsm m along the states of trace t, one letter a step
FollowsTrace(m, t, w) ==
  /\ Len(w) = Len(t) - 1
  /\ \A i \in 1..Len(w) :
       /\ LetterIdx(m, w[i]) # -1
       /\ <<t[i], LetterIdx(m, w[i])>> \in DOMAIN m.trans_state_map_
       /\ m.trans_state_map_[<<t[i], LetterIdx(m, w[i])>>] = t[i + 1]

\* the last call ran Fsm::sample and it returned a word
SampleReturned ==
  \/ fop = "sample"
  \/ fop = "resample" /\ Len(pre.trace) < 2

\* the last call was a resample that walked the trace of a sample that returned
Resampled == fop = "resample" /\ pre.ok

\* C4: every word that Fsm::sample returns is matched by the expression the
\* Fsm was built from and by the Fsm, and sample returns only in a final state.
C4_SampleAccepted ==
  SampleReturned =>
    /\ Match(fsm_r, word)
    /\ FsmMatch(fsm, word)
    /\ fsm.states_trace_[Len(fsm.states_trace_)] \in fsm.finals_
    /\ FollowsTrace(fsm, fsm.states_trace_, word)

C4_Witness ==
  /\ fop = "sample"
  /\ Len(word) >= 2
  /\ Cardinality({fsm.states_trace_[i] : i \in 1..Len(fsm.states_trace_)}) >= 2
  /\ Match(fsm_r, word)

FsmStates(m) ==
  {1} \cup {m.trans_state_map_[t] : t \in DOMAIN m.trans_state_map_}

\* the states that a transition leaves from q
Successors(m, q) ==
  {m.trans_state_map_[t] : t \in {u \in DOMAIN m.trans_state_map_ : u[1] = q}}

\* the states reached from the states of S
RECURSIVE ReachableFrom(_, _)
ReachableFrom(m, S) ==
  LET T == S \cup UNION {Successors(m, q) : q \in S}
  IN IF T = S THEN S ELSE ReachableFrom(m, T)

\* the states p and q of m accept the same words; two states of an automaton
\* of n states that differ are told apart by a word of at most n letters
SameLanguage(m, p, q) ==
  \A w \in WordsUpTo({m.alphabet_[k] : k \in 1..Len(m.alphabet_)},
                     Cardinality(FsmStates(m))) :
    FsmMatchFrom(m, p, w) <=> FsmMatchFrom(m, q, w)

\* C11: the Fsm built from an expression is minimal: no two distinct states
\* of it accept the same language.
C11_Minimal ==
  fop # "none" =>
    \A p \in FsmStates(fsm), q \in FsmStates(fsm) :
      p # q => ~ SameLanguage(fsm, p, q)

\* C12: in the Fsm built from an expression every state is reachable from
\* state 1, every state that is not final has a transition that leaves it,
\* and sample() never throws.
C12_NoDanglingState ==
  fop # "none" =>
    /\ FsmStates(fsm) = ReachableFrom(fsm, {1})
    /\ \A q \in FsmStates(fsm) : q \notin fsm.finals_ => Successors(fsm, q) # {}
    /\ fop # "throw"

\* the words of at most MaxWordLen shifts, of the alphabet of the Fsm or not
FsmWords == WordsUpTo({ShiftA, ShiftB, ShiftR}, MaxWordLen)

\* C26: Fsm::match gives on every word the answer of RegExp::match on the
\* expression the Fsm was built from, the empty word included, and false on
\* a word with a letter that is not of the alphabet.
C26_MatchAgrees ==
  \A w \in FsmWords :
    /\ FsmMatch(fsm, w) <=> Match(fsm_r, w)
    /\ (\E k \in 1..Len(w) : LetterIdx(fsm, w[k]) = -1) => ~ FsmMatch(fsm, w)

\* state_states_map_[q0] holds every state that a transition leaves from q0
\* to, each once
SuccessorsOnce(m) ==
  \A q0 \in DOMAIN m.state_states_map_ :
    /\ {m.state_states_map_[q0][i] : i \in 1..Len(m.state_states_map_[q0])}
         = Successors(m, q0)
    /\ \A i, j \in 1..Len(m.state_states_map_[q0]) :
         i # j => m.state_states_map_[q0][i] # m.state_states_map_[q0][j]

\* the buckets of trans_letters_map_[<<q0, q1>>] hold between them the
\* letters that lead from q0 to q1, each once, the letters of one bucket have
\* one EPP value and two buckets have different ones
BucketsPartition(m) ==
  \A t \in DOMAIN m.trans_letters_map_ :
    LET epp_v == m.trans_letters_map_[t]
        f == Flatten(epp_v)
    IN /\ {f[i] : i \in 1..Len(f)}
            = {l \in 0..(Len(m.alphabet_) - 1) :
                 /\ <<t[1], l>> \in DOMAIN m.trans_state_map_
                 /\ m.trans_state_map_[<<t[1], l>>] = t[2]}
       /\ \A i, j \in 1..Len(f) : i # j => f[i] # f[j]
       /\ \A e \in 1..Len(epp_v) : Len(epp_v[e]) > 0
       /\ \A d, e \in 1..Len(epp_v) : \A i \in 1..Len(epp_v[d]), j \in 1..Len(epp_v[e]) :
            (d = e) <=> (ShiftEpp(m.alphabet_[epp_v[d][i] + 1])
                           = ShiftEpp(m.alphabet_[epp_v[e][j] + 1]))

\* C27: state_states_map_[q0] lists every successor of q0 once, also when
\* several letters lead from q0 to the same state, and the buckets of
\* trans_letters_map_ partition the letters between two states by EPP value.
C27_SuccessorsAndBuckets ==
  fop # "none" => SuccessorsOnce(fsm) /\ BucketsPartition(fsm)

\* the last call was a resample(fitness) that walked a recorded trace and
\* returned
ResampledFitness == fop = "resample" /\ pre.fit # "" /\ Len(pre.trace) >= 2

\* the letters of every bucket between the states of step i (from 1) of the
\* recorded trace, in iteration order
StepLetters(i) == Flatten(fsm.trans_letters_map_[<<pre.trace[i], pre.trace[i + 1]>>])

\* the fitness of letter k of step i, given the letters chosen before step i
StepFitness(i, k) ==
  Fitness(pre.fit)[i - 1, SubSeq(word, 1, i - 1), fsm.alphabet_[StepLetters(i)[k] + 1]]

\* C19: at every step of the recorded trace resample(fitness) chooses, among
\* the letters of every bucket between the two states, the letter of least
\* fitness(step, letters chosen so far, letter), the first of them in
\* iteration order when several have the least fitness.
C19_ResampleFittest ==
  ResampledFitness =>
    /\ Len(word) = Len(pre.trace) - 1
    /\ \A i \in 1..Len(word) :
         \E k \in 1..Len(StepLetters(i)) :
           /\ word[i] = fsm.alphabet_[StepLetters(i)[k] + 1]
           /\ \A j \in 1..Len(StepLetters(i)) : ~ RLt(StepFitness(i, j), StepFitness(i, k))
           /\ \A j \in 1..(k - 1) : RLt(StepFitness(i, k), StepFitness(i, j))

\* a resample(fitness) that passed over the first letter of a step for a
\* fitter one and took the first of two letters of equal fitness at another
C19_Witness ==
  /\ ResampledFitness
  /\ \E i \in 1..Len(word) :
       /\ Len(StepLetters(i)) >= 2
       /\ word[i] # fsm.alphabet_[StepLetters(i)[1] + 1]
  /\ \E i \in 1..Len(word) :
       /\ Len(StepLetters(i)) >= 2
       /\ word[i] = fsm.alphabet_[StepLetters(i)[1] + 1]
       /\ StepFitness(i, 1) = StepFitness(i, 2)

---------------------------------------------------------------------------
(* Claims about the planner State (checked under SpecState) *)

\* the assignments of agent a (from 1) in the week of the State
WeekOf(a) ==
  SubSeq(plan.plan_[a], state.week_ * WEEK_DAYS + 1, state.week_ * WEEK_DAYS + WEEK_DAYS)

\* the staffing curve recomputed from the assignments of every agent and day
RECURSIVE Recomputed(_, _, _)
Recomputed(a, d, stf) ==
  IF a > Len(plan.plan_) THEN stf
  ELSE IF d > Len(plan.plan_[a]) THEN Recomputed(a + 1, 1, stf)
  ELSE Recomputed(a, d + 1, AddStaff(plan.plan_[a][d], d - 1, 1, stf))

\* C1: after construction and after any calls of mutate and apply_mutation
\* the seven assignments of every agent in the planned week are a word that
\* the agent's sampler and rule accept.
C1_WeekAccepted ==
  sop \in {"new", "mutate", "apply"} =>
    \A a \in 1..Len(plan.plan_) : FsmMatch(state.samplers_[a], WeekOf(a))

\* C2: after construction and after every apply_mutation the staffing curve
\* is, slot by slot, the sum of the contributions of every assignment.
C2_StaffingIsSum ==
  sop \in {"new", "apply"} =>
    plan.staffing_ = Recomputed(1, 1, [i \in 1..Len(plan.staffing_) |-> 0])

\* C3: delta_energy() of a mutation that mutate proposed equals energy()
\* after apply_mutation minus energy() before it.
C3_DeltaIsDifference ==
  (sop = "apply" /\ hist.fresh) =>
    RSub(Energy(state, plan), hist.e0) = hist.de

\* C15: updatePlan(agent_idx, day, line), as apply_mutation calls it, leaves
\* line[i] in plan[agent_idx][day + i] for every i below the length of the
\* line with day + i below the days of the plan, whatever the number of
\* agents, and leaves every other entry of the plan as it was.
C15_UpdatePlanOverwrites ==
  [][sop' = "apply" =>
       \A a \in 1..Len(plan.plan_) : \A d \in 1..Len(plan.plan_[a]) :
         plan'.plan_[a][d] =
           IF /\ a = state.mutd_idx_ + 1
              /\ state.week_ * WEEK_DAYS <= d - 1
              /\ d - 1 - state.week_ * WEEK_DAYS < Len(state.mutd_pln_)
           THEN state.mutd_pln_[d - state.week_ * WEEK_DAYS]
           ELSE plan.plan_[a][d]]_vars

\* the contribution to the slots of the week of the entries off + 1 ..
\* off + n of a line, entry by entry from day
RECURSIVE Contribution(_, _, _, _, _)
Contribution(line, off, n, day, stf) ==
  IF day >= n THEN stf
  ELSE Contribution(line, off, n, day + 1, AddStaff(line[off + day + 1], day, 1, stf))

\* the contribution of nothing to the slots of the week
NoStaff == [i \in 1..WeekSlots(plan) |-> 0]

\* C16: after every mutate, prev_stf holds exactly the contribution to the
\* week of the current assignments of agent mutd_idx and mutd_stf exactly
\* the contribution of the candidate mutd_pln.
C16_MutateContributions ==
  sop \in {"new", "mutate"} =>
    /\ state.prev_stf_ = Contribution(plan.plan_[state.mutd_idx_ + 1], state.week_ * WEEK_DAYS,
                                      WEEK_DAYS, 0, NoStaff)
    /\ state.mutd_stf_ = Contribution(state.mutd_pln_, 0, Len(state.mutd_pln_), 0, NoStaff)

\* C17: after apply_mutation prev_stf holds the contribution to the week of
\* the row of agent mutd_idx as it now is, and an apply_mutation that
\* followed at once would leave the staffing curve as it is.
C17_ApplyLeavesConsistent ==
  sop = "apply" =>
    /\ state.prev_stf_ = Contribution(plan.plan_[state.mutd_idx_ + 1], state.week_ * WEEK_DAYS,
                                      WEEK_DAYS, 0, NoStaff)
    /\ ApplyStaffing(state, plan) = plan.staffing_

\* C18: after construction and after every mutate the candidate mutd_pln
\* has exactly seven entries, whatever the rule of the agent.
C18_CandidateHasSevenDays ==
  sop \in {"new", "mutate"} => Len(state.mutd_pln_) = WEEK_DAYS

---------------------------------------------------------------------------
(* Claims about the annealer (checked under SpecAnneal) *)

\* a double that is a finite number
IsNumber(x) == x.den > 0

\* the last call was anneal(ti, tf, delta_t) with numbers of which ti <= 0,
\* or tf <= 0, or ti <= tf, or delta_t is outside [0, 1)
InvalidAnnealCall ==
  /\ an.op = "anneal"
  /\ IsNumber(an.ti) /\ IsNumber(an.tf) /\ IsNumber(an.delta_t)
  /\ \/ an.ti.num <= 0
     \/ an.tf.num <= 0
     \/ an.ti.num * an.tf.den <= an.tf.num * an.ti.den
     \/ an.delta_t.num < 0
     \/ an.delta_t.num >= an.delta_t.den

Annealing == an.op = "anneal" /\ an.pc = "loop"

\* the calls of mutate in the level of anneal so far
LevelMutations == an.k + (IF an.brk THEN 1 ELSE 0)

\* the counts of a level of anneal stay within their limits
LevelWithinLimits ==
  Annealing =>
    /\ LevelMutations <= an.nover_
    /\ an.l <= an.nover_ \div 50 + 1
    /\ an.l <= LevelMutations
    /\ an.n <= an.steps
    /\ an.steps \in Steps(an.ti, an.tf, an.delta_t)

\* anneal returns at the end of a level with fewer than ten commits, and
\* once returned nothing is mutated or committed until the next call
ReturnsAfterQuietLevel ==
  /\ (Annealing /\ (an.brk \/ an.k = an.nover_) /\ an.l < 10) =>
       (an' = an \/ an'.pc = "returned")
  /\ (an.op = "anneal" /\ an.pc = "returned" /\ an'.pc = "returned") =>
       (state' = state /\ plan' = plan)

\* C22: every level of anneal calls mutate at most nover times and commits
\* at most nover / 50 + 1 mutations, at most steps levels are run, a level
\* with fewer than ten commits is the last, and anneal returns: mutate()
\* has an outcome in every pass, and every call of anneal reaches its return.
C22_AnnealBounded ==
  /\ [] (MutatePassDue => Mutate(state, plan) # {})
  /\ [] LevelWithinLimits
  /\ [][ReturnsAfterQuietLevel]_vars
  /\ (Annealing ~> (an.op = "anneal" /\ an.pc = "returned"))

\* a second level of anneal whose inner loop has stopped at l > nlimit
C22_Witness ==
  /\ Annealing
  /\ an.n = 2
  /\ an.brk
  /\ an.l = an.nover_ \div 50 + 1
  /\ LevelMutations < an.nover_

\* C23: calibrateTi returns the t0 of the batch whose acceptance ratio
\* reached CHI0, the temperature at which the ratio was measured.
C23_ReturnsMeasuredT0 ==
  [][(an.op = "calibrateTi" /\ an.pc = "loop" /\ an'.pc = "returned")
       => an'.ret = an.t0]_vars

\* the Plan is as it was when calibrateTf was called
TfLeavesPlan ==
  (an.op = "calibrateTf" /\ an.pc \in {"loop", "returned"}) => plan = an.entry

\* de_min starts as energy(), a trial lowers it to |delta_energy| when that
\* is positive and smaller, and the value returned is de_min
TfKeepsMinimum ==
  /\ (an.pc # "loop" /\ an'.op = "calibrateTf" /\ an'.pc = "loop")
       => an'.de_min = Energy(state, plan) /\ an'.n = 0
  /\ (an.op = "calibrateTf" /\ an.pc = "loop" /\ an'.pc = "loop")
       => /\ an'.n = an.n + 1
          /\ an'.de_min =
               IF /\ RLt(Rat(0, 1), RAbs(DeltaEnergy(state', plan')))
                  /\ RLt(RAbs(DeltaEnergy(state', plan')), an.de_min)
               THEN RAbs(DeltaEnergy(state', plan')) ELSE an.de_min
  /\ (an.op = "calibrateTf" /\ an.pc = "loop" /\ an'.pc = "returned")
       => an.n = STATE_SETUP_TRIES /\ an'.ret = an.de_min

\* C24: calibrateTf commits no mutation, the Plan (assignments and staffing)
\* is the same before, during and after the call, and the value returned is
\* the least positive |delta_energy| of the trials, or energy() at the call
\* when no trial gave a smaller one.
C24_CalibrateTfFrame ==
  /\ [] TfLeavesPlan
  /\ [][TfKeepsMinimum]_vars

\* calibrateTf has returned a positive value below the energy
C24_Witness ==
  /\ an.op = "calibrateTf" /\ an.pc = "returned"
  /\ RLt(Rat(0, 1), an.ret)
  /\ RLt(an.ret, Energy(state, plan))

\* a batch of calibrateTi has ended and each of its trials was accepted
AllAcceptedBatch ==
  /\ an.op = "calibrateTi" /\ an.pc = "loop"
  /\ an.i = an.nover_ \div 50
  /\ an.a = an.i

\* C28: calibrateTi returns whenever every mutation is accepted: the ratio
\* a / n of a batch whose trials were all accepted reaches CHI0, so that the
\* while loop ends with that batch.
C28_AllAcceptedReturns ==
  AllAcceptedBatch => ~ RLt(Rat(an.a, an.n), CHI0)

---------------------------------------------------------------------------
(* Claims about calls of run() one after the other (checked under SpecRerun) *)

\* C29: the construction of the State of a run() leaves the staffing curve
\* equal, slot by slot, to the sum of the contributions of the shifts that
\* are assigned, whatever earlier runs have left in the Plan.
C29_ConstructionEstablishesStaffing ==
  sop = "new" =>
    plan.staffing_ = Recomputed(1, 1, [i \in 1..Len(plan.staffing_) |-> 0])

---------------------------------------------------------------------------
(* Claims about StaffPlanner::setWeek (checked under SpecWeek) *)

\* the days [7 * week, 7 * week + 7) are days of a plan of the given length
WeekInPlan(week, days) == week >= 0 /\ week < days \div WEEK_DAYS

\* C25: setWeek(week) stores week when the seven days of the week are days
\* of the plan and otherwise throws and leaves week_ as it was, for every
\* int week and every length of the plan.
C25_SetWeekChecked ==
  [][\A week \in WeekArgs :
       SetWeek(week) =>
         IF WeekInPlan(week, plan.days_)
         THEN rn'.pc = "ready" /\ rn'.week_ = ToU32(week)
         ELSE rn'.pc = "thrown" /\ rn'.week_ = rn.week_]_vars

---------------------------------------------------------------------------
(* Claims about StaffPlanner::run (checked under SpecRun) *)

\* the planner of one agent whose rule is a rest on each of the seven days,
\* with a target of zero in every slot
TrivialScenario ==
  /\ rn.pc # "none"
  /\ Len(plan.plan_) = 1
  /\ rn.samplers_ = <<SamplerOf(RuleRest)>>
  /\ \A i \in 1..Len(plan.target_) : plan.target_[i] = 0

\* C10: in the trivial scenario run() completes (State construction,
\* calibrate, calibrateTi, calibrateTf, anneal), and when it has ended the
\* week of the agent is [R,R,R,R,R,R,R] and energy() is exactly 0.
C10_TrivialRunCompletes ==
  (TrivialScenario /\ rn.pc \in {"done", "failed"}) =>
    /\ rn.pc = "done"
    /\ WeekOf(1) = [d \in 1..WEEK_DAYS |-> ShiftR]
    /\ Energy(state, plan) = Rat(0, 1)

\* a step of run() after the construction of the State that changes the
\* Plan commits a candidate that mutate() has just proposed from the State
\* and the Plan as the last commit left them
CommitsFreshCandidate ==
  (rn.pc # "ready" /\ plan' # plan) =>
    \E st \in Mutate(state, plan) : state' = st /\ plan' = ApplyMutation(st, plan)

\* C30: in a run() every apply_mutation() follows a mutate() with no other
\* apply_mutation() between the two: in State::calibrate, calibrateTi,
\* calibrateTf and anneal the Plan changes only by the commit of the
\* candidate of the mutate() of the same pass.
C30_ApplyFollowsMutate == [][CommitsFreshCandidate]_vars

\* anneal has committed a mutation that changed the first day of the agent
C30_Witness ==
  /\ rn.pc = "anneal"
  /\ an.op = "anneal" /\ an.pc = "loop"
  /\ an.l > 0
  /\ plan # an.entry

---------------------------------------------------------------------------
(* Claims about Shift and hashing (checked under SpecShift) *)

\* C13: the ordering of Shift is total and consistent with equality: of
\* a < b, a == b and b < a exactly one holds for any two shifts, also for
\* two working shifts that start at the same minute with different spans.
C13_Trichotomy ==
  /\ Cardinality({k \in {1, 2, 3} :
                    \/ k = 1 /\ ShiftLt(sa, sb)
                    \/ k = 2 /\ ShiftEq(sa, sb)
                    \/ k = 3 /\ ShiftLt(sb, sa)}) = 1
  /\ (ShiftEq(sa, sb) \/ ShiftLt(sa, sb)) \/ (ShiftEq(sb, sa) \/ ShiftLt(sb, sa))

\* expressions over the literals of sa and sb
HashRexes ==
  {Lit(sa), Lit(sb),
   SumMake(Lit(sa), Lit(sb)), SumMake(Lit(sb), Lit(sa)),
   AndMake(Lit(sa), Lit(sb)), AndMake(Lit(sb), Lit(sa)),
   PrdMake(Lit(sa), Lit(sb)), PrdMake(Lit(sb), Lit(sa)),
   KstMake(Lit(sa)), KstMake(SumMake(Lit(sa), Lit(sb)))}

\* C14: expressions that are structurally equal have equal hashes: a Sum or
\* an And hashes to one value whatever the order of its members, and two
\* literals of shifts that compare equal hash to one value.
C14_HashConsistent ==
  \A r \in HashRexes, s \in HashRexes :
    Equal(r, s) => \A h1 \in RexHashes(r), h2 \in RexHashes(s) : h1 = h2

=============================================================================
